---- MODULE Spec2Model ----
(***************************************************************************)
(* Verification model of the volatility_analysis scoring core:             *)
(*   - the trade-permission guard (core/guards.py), its posture overlay    *)
(*     (core/analyzer.py) and the micro-template overlay                   *)
(*     (bridge/micro_templates.py);                                        *)
(*   - the orchestrator calculate_analysis (core/analyzer.py) with the     *)
(*     normalizer (core/cleaning.py) and the adaptive parameter engine     *)
(*     (core/dynamic_params.py);                                           *)
(*   - the rolling history cache (core/rolling_cache.py);                  *)
(*   - the records repository (storage/sqlite_repo.py).                    *)
(*                                                                         *)
(* Conventions.  An optional value (Python None or a value) is a sequence  *)
(* of length 0 or 1.  Chinese labels are written in ASCII: confidence      *)
(* 高/中/低 is HIGH/MED/LOW, direction 偏多/偏空/中性 is BULL/BEAR/NEUTRAL,  *)
(* volatility 买波/卖波/中性 is LONG_VOL/SHORT_VOL/NEUTRAL.                  *)
(***************************************************************************)
EXTENDS Integers, Sequences, FiniteSets, TLC

VARIABLES
    perm,       \* permission_info of the last evaluation, with its inputs
    data,       \* RollingCache.data of the process-wide cache (in memory)
    disk,       \* contents of rolling_cache.json
    clock,      \* wall clock, in ticks (TicksPerDay ticks per calendar day)
    result,     \* outcome of the last call of the operation a specification studies
    appended,   \* history: every sample appended to a symbol's series, in arrival order
    cfg,        \* the configuration the process runs with (fixed)
    rows,       \* table analysis_records of the records repository
    upserted,   \* every record handed to upsert_daily_latest so far
    lastOp,     \* name of the last operation that completed
    steps       \* number of cache and analysis operations so far

vars == <<perm, data, disk, clock, result, appended, cfg, rows, upserted, lastOp, steps>>

None == <<>>
Some(v) == <<v>>
IsNone(x) == x = <<>>
IsNum(x) == Len(x) = 1
Val(x) == x[1]

Max2(a, b) == IF a >= b THEN a ELSE b
Min2(a, b) == IF a <= b THEN a ELSE b

(***************************************************************************)
(* Trade-permission guard                                                  *)
(***************************************************************************)
Permissions == {"NORMAL", "ALLOW_DEFINED_RISK_ONLY", "NO_TRADE"}

\* severity order used by every elevate step; unknown names rank 0
severity_map(p) ==
    CASE p = "NORMAL" -> 0
      [] p = "ALLOW_DEFINED_RISK_ONLY" -> 1
      [] p = "NO_TRADE" -> 2
      [] OTHER -> 0

_elevate_permission(current, target) ==
    IF severity_map(target) > severity_map(current) THEN target ELSE current

base_disabled == {"naked_short_put", "naked_short_call", "short_strangle"}
hard_disabled == base_disabled \cup {"short_put_ratio", "short_call_ratio"}

\* the nested flag() of evaluate_trade_permission
flag(st, target, code, hard) ==
    [ trade_permission    |-> _elevate_permission(st.trade_permission, target),
      permission_reasons  |-> Append(st.permission_reasons, code),
      disabled_structures |->
          IF target \in {"ALLOW_DEFINED_RISK_ONLY", "NO_TRADE"}
          THEN st.disabled_structures \cup
               (IF hard \/ target = "NO_TRADE" THEN hard_disabled ELSE base_disabled)
          ELSE st.disabled_structures ]

combine_quadrant(dir_pref, vol_pref) ==
    IF dir_pref = "NEUTRAL" \/ vol_pref = "NEUTRAL"
    THEN <<"NEUTRAL", "WATCH">>
    ELSE <<dir_pref, vol_pref>>

\* the substring test  "卖波" in quadrant
QuadrantHasShortVol(quadrant) == quadrant[2] = "SHORT_VOL"

\* the reason code  f"FEAR_REGIME_{fr}"
FearRegimeCode(fr) ==
    CASE fr = "FEAR_SELL_PRESSURE" -> "FEAR_REGIME_FEAR_SELL_PRESSURE"
      [] fr = "TERM_STRUCTURE_INVERSION" -> "FEAR_REGIME_TERM_STRUCTURE_INVERSION"
      [] fr = "HIGH_VIX_ENV" -> "FEAR_REGIME_HIGH_VIX_ENV"

\* the fear loop stopping after the first reason
FlagFearReasons_first_only(st, fear_reasons) ==
    IF fear_reasons = <<>> THEN st
    ELSE flag(st, "ALLOW_DEFINED_RISK_ONLY", FearRegimeCode(Head(fear_reasons)), FALSE)

RECURSIVE FlagFearReasons(_, _)
FlagFearReasons(st, fear_reasons) ==
    IF fear_reasons = <<>> THEN st
    ELSE FlagFearReasons(
            flag(st, "ALLOW_DEFINED_RISK_ONLY", FearRegimeCode(Head(fear_reasons)), FALSE),
            Tail(fear_reasons))

\* evaluate_trade_permission taking is_short_vol from the quadrant alone
evaluate_trade_permission_quadrant_only(quadrant, vol_pref, confidence, days_to_earnings, data_quality, fear_reasons) ==
    LET st0 == [ trade_permission |-> "NORMAL",
                 permission_reasons |-> <<>>,
                 disabled_structures |-> {} ]
        is_short_vol == QuadrantHasShortVol(quadrant)
        st1 == IF data_quality = "MED" /\ is_short_vol
               THEN flag(st0, "ALLOW_DEFINED_RISK_ONLY", "DATA_QUALITY_MED", FALSE)
               ELSE st0
        st2 == IF IsNum(days_to_earnings) /\ Val(days_to_earnings) >= 0
                  /\ Val(days_to_earnings) <= 7
               THEN flag(st1, "ALLOW_DEFINED_RISK_ONLY", "EARNINGS_WINDOW_SHORT_VOL", FALSE)
               ELSE st1
        st3 == IF confidence = "LOW"
               THEN flag(st2, "ALLOW_DEFINED_RISK_ONLY", "LOW_CONFIDENCE_SHORT_VOL", FALSE)
               ELSE st2
    IN  IF data_quality = "LOW"
        THEN flag(st0, "NO_TRADE", "DATA_QUALITY_LOW", TRUE)
        ELSE IF ~is_short_vol
        THEN st1
        ELSE FlagFearReasons(st3, fear_reasons)

\* evaluate_trade_permission without the early return of the LOW branch
evaluate_trade_permission_no_return(quadrant, vol_pref, confidence, days_to_earnings, data_quality, fear_reasons) ==
    LET st0 == [ trade_permission |-> "NORMAL",
                 permission_reasons |-> <<>>,
                 disabled_structures |-> {} ]
        is_short_vol == QuadrantHasShortVol(quadrant) \/ vol_pref = "SHORT_VOL"
        st1 == IF data_quality = "LOW"
               THEN flag(st0, "NO_TRADE", "DATA_QUALITY_LOW", TRUE)
               ELSE IF data_quality = "MED" /\ is_short_vol
               THEN flag(st0, "ALLOW_DEFINED_RISK_ONLY", "DATA_QUALITY_MED", FALSE)
               ELSE st0
        st2 == IF IsNum(days_to_earnings) /\ Val(days_to_earnings) >= 0
                  /\ Val(days_to_earnings) <= 7
               THEN flag(st1, "ALLOW_DEFINED_RISK_ONLY", "EARNINGS_WINDOW_SHORT_VOL", FALSE)
               ELSE st1
        st3 == IF confidence = "LOW"
               THEN flag(st2, "ALLOW_DEFINED_RISK_ONLY", "LOW_CONFIDENCE_SHORT_VOL", FALSE)
               ELSE st2
    IN  IF ~is_short_vol
        THEN st1
        ELSE FlagFearReasons(st3, fear_reasons)

evaluate_trade_permission(quadrant, vol_pref, confidence, days_to_earnings, data_quality, fear_reasons) ==
    LET st0 == [ trade_permission |-> "NORMAL",
                 permission_reasons |-> <<>>,
                 disabled_structures |-> {} ]
        is_short_vol == QuadrantHasShortVol(quadrant) \/ vol_pref = "SHORT_VOL"
        st1 == IF data_quality = "MED" /\ is_short_vol
               THEN flag(st0, "ALLOW_DEFINED_RISK_ONLY", "DATA_QUALITY_MED", FALSE)
               ELSE st0
        st2 == IF IsNum(days_to_earnings) /\ Val(days_to_earnings) >= 0
                  /\ Val(days_to_earnings) <= 7
               THEN flag(st1, "ALLOW_DEFINED_RISK_ONLY", "EARNINGS_WINDOW_SHORT_VOL", FALSE)
               ELSE st1
        st3 == IF confidence = "LOW"
               THEN flag(st2, "ALLOW_DEFINED_RISK_ONLY", "LOW_CONFIDENCE_SHORT_VOL", FALSE)
               ELSE st2
    IN  IF data_quality = "LOW"
        THEN flag(st0, "NO_TRADE", "DATA_QUALITY_LOW", TRUE)
        ELSE IF ~is_short_vol
        THEN st1
        ELSE FlagFearReasons(st3, fear_reasons)

all_short_structures ==
    {"naked_short_put", "naked_short_call", "short_strangle",
     "short_call_ratio", "short_put_ratio"}

\* elevate() assigning the target without comparing severities
elevate_assign(st, target, code, add_disabled) ==
    [ trade_permission    |-> target,
      permission_reasons  |-> Append(st.permission_reasons, code),
      disabled_structures |-> IF add_disabled
                              THEN st.disabled_structures \cup all_short_structures
                              ELSE st.disabled_structures ]

\* elevate() that records its reason and structures and leaves the
\* permission as it was
elevate_reason_only(st, target, code, add_disabled) ==
    [ trade_permission    |-> st.trade_permission,
      permission_reasons  |-> Append(st.permission_reasons, code),
      disabled_structures |-> IF add_disabled
                              THEN st.disabled_structures \cup all_short_structures
                              ELSE st.disabled_structures ]

\* the nested elevate() of calculate_analysis and of select_micro_template
elevate(st, target, code, add_disabled) ==
    [ trade_permission    |-> IF severity_map(target) > severity_map(st.trade_permission)
                              THEN target ELSE st.trade_permission,
      permission_reasons  |-> Append(st.permission_reasons, code),
      disabled_structures |-> IF add_disabled
                              THEN st.disabled_structures \cup all_short_structures
                              ELSE st.disabled_structures ]

\* posture overlay of calculate_analysis
posture_overlay(permission_info, posture_tag) ==
    CASE posture_tag = "COUNTERTREND" ->
            elevate(permission_info, "ALLOW_DEFINED_RISK_ONLY", "POSTURE_COUNTERTREND", FALSE)
      [] posture_tag = "ONE_DAY_SHOCK" ->
            LET e == elevate(permission_info, "ALLOW_DEFINED_RISK_ONLY",
                             "POSTURE_ONE_DAY_SHOCK", FALSE)
            IN  [e EXCEPT !.disabled_structures = @ \cup base_disabled]
      [] posture_tag = "CHOP" ->
            elevate(permission_info, "NO_TRADE", "POSTURE_CHOP", TRUE)
      [] OTHER -> permission_info

\* select_micro_template whose elevate calls leave disabled_structures alone
select_micro_template_no_disable(payload, posture) ==
    CASE posture = "COUNTERTREND" ->
            elevate(payload, "ALLOW_DEFINED_RISK_ONLY", "POSTURE_COUNTERTREND_OVERLAY", FALSE)
      [] posture = "ONE_DAY_SHOCK" ->
            elevate(payload, "ALLOW_DEFINED_RISK_ONLY", "POSTURE_ONE_DAY_SHOCK_OVERLAY", FALSE)
      [] posture = "CHOP" ->
            elevate(payload, "NO_TRADE", "POSTURE_CHOP_OVERLAY", FALSE)
      [] OTHER -> payload

\* permission part of select_micro_template
select_micro_template(payload, posture) ==
    CASE posture = "COUNTERTREND" ->
            elevate(payload, "ALLOW_DEFINED_RISK_ONLY", "POSTURE_COUNTERTREND_OVERLAY", TRUE)
      [] posture = "ONE_DAY_SHOCK" ->
            elevate(payload, "ALLOW_DEFINED_RISK_ONLY", "POSTURE_ONE_DAY_SHOCK_OVERLAY", TRUE)
      [] posture = "CHOP" ->
            elevate(payload, "NO_TRADE", "POSTURE_CHOP_OVERLAY", TRUE)
      [] OTHER -> payload

\* the three stages of the permission inside one calculate_analysis call:
\* evaluate_trade_permission, the posture overlay, select_micro_template
permission_stages(in) ==
    LET quadrant == combine_quadrant(in.dir_pref, in.vol_pref)
        p1 == evaluate_trade_permission(quadrant, in.vol_pref, in.confidence,
                                        in.days_to_earnings, in.data_quality,
                                        in.fear_reasons)
        p2 == posture_overlay(p1, in.posture_5d)
        p3 == select_micro_template(p2, in.posture_5d)
    IN  [ in EXCEPT !.evaluated = TRUE, !.quadrant = quadrant,
                    !.pass_one = p1, !.overlay = p2, !.reported = p3 ]

DirPrefs == {"BULL", "BEAR", "NEUTRAL"}
VolPrefs == {"LONG_VOL", "SHORT_VOL", "NEUTRAL"}
Confidences == {"HIGH", "MED", "LOW"}
DataQualities == {"HIGH", "MED", "LOW"}
Postures == {"TREND_CONFIRM", "COUNTERTREND", "ONE_DAY_SHOCK", "CHOP"}
DaysToEarnings == {None, Some(-1), Some(0), Some(7), Some(8)}
\* detect_fear_regime appends its reasons in this fixed order
FearReasonLists ==
    { <<>>, <<"FEAR_SELL_PRESSURE">>, <<"TERM_STRUCTURE_INVERSION">>, <<"HIGH_VIX_ENV">>,
      <<"FEAR_SELL_PRESSURE", "TERM_STRUCTURE_INVERSION">>,
      <<"FEAR_SELL_PRESSURE", "HIGH_VIX_ENV">>,
      <<"TERM_STRUCTURE_INVERSION", "HIGH_VIX_ENV">>,
      <<"FEAR_SELL_PRESSURE", "TERM_STRUCTURE_INVERSION", "HIGH_VIX_ENV">> }

NotEvaluated ==
    [ trade_permission |-> "NORMAL", permission_reasons |-> <<>>,
      disabled_structures |-> {} ]

\* the inputs of one evaluation, before it has run
PermissionInput(d, v, c, e, q, f, p) ==
    [ evaluated |-> FALSE, dir_pref |-> d, vol_pref |-> v, confidence |-> c,
      days_to_earnings |-> e, data_quality |-> q, fear_reasons |-> f,
      posture_5d |-> p, quadrant |-> <<"NEUTRAL", "WATCH">>,
      pass_one |-> NotEvaluated, overlay |-> NotEvaluated, reported |-> NotEvaluated ]

PermissionInputs ==
    { PermissionInput(d, v, c, e, q, f, p) :
        d \in DirPrefs, v \in VolPrefs, c \in Confidences, e \in DaysToEarnings,
        q \in DataQualities, f \in FearReasonLists, p \in Postures }

NoPerm == PermissionInput("NEUTRAL", "NEUTRAL", "MED", None, "HIGH", <<>>, "TREND_CONFIRM")

EvaluatePermission ==
    /\ ~perm.evaluated
    /\ perm' = permission_stages(perm)
    /\ lastOp' = "evaluate_permission"
    /\ UNCHANGED <<data, disk, clock, result, appended, cfg, rows, upserted, steps>>

(***************************************************************************)
(* Timestamps.  A timestamp string is "YYYY-MM-DD HH:MM:SS" (fmt "space",  *)
(* written by strftime in calculate_analysis) or "YYYY-MM-DDTHH:MM:SS"     *)
(* (fmt "iso", written by datetime.isoformat in the rolling cache); day    *)
(* and time stand for the two fixed-width fields.                          *)
(***************************************************************************)
Timestamp(fmt, day, time) == [ fmt |-> fmt, day |-> day, time |-> time ]

\* str.split(sep)[0]: the date field when sep separates date and time, the
\* whole string when sep does not occur in it
SplitFirst(ts, sepfmt) ==
    IF ts.fmt = sepfmt THEN <<"date", ts.day>> ELSE <<ts.fmt, ts.day, ts.time>>

\* the separator characters compare as " " < "T"
SepRank(fmt) == IF fmt = "space" THEN 0 ELSE 1

\* string comparison  a > b  of two timestamp strings
TimestampGreater(a, b) ==
    \/ a.day > b.day
    \/ a.day = b.day /\ SepRank(a.fmt) > SepRank(b.fmt)
    \/ a.day = b.day /\ a.fmt = b.fmt /\ a.time > b.time

(***************************************************************************)
(* Records repository (table analysis_records)                             *)
(***************************************************************************)
MaxBatch == 2
MaxDay == 2
MaxTime == 2

\* str.upper() on the symbols of the model
Upper(symbol) == IF symbol = "aapl" THEN "AAPL" ELSE symbol

RepoSymbols == {"aapl", "MSFT"}
RepoTimestamps == { Timestamp("space", d, t) : d \in 1..MaxDay, t \in 1..MaxTime }
\* a result record as the callers hand it over (the payload column is the
\* JSON text of the whole record); one record lacks its symbol and one its
\* timestamp
RepoRecords ==
    { [ symbol |-> y, timestamp |-> Some(ts) ] : y \in RepoSymbols, ts \in RepoTimestamps }
    \cup { [ symbol |-> "", timestamp |-> Some(Timestamp("space", 1, 1)) ],
           [ symbol |-> "MSFT", timestamp |-> None ] }

RECURSIVE SeqsUpTo(_, _)
SeqsUpTo(S, n) ==
    IF n = 0 THEN { <<>> }
    ELSE LET shorter == SeqsUpTo(S, n - 1)
         IN  shorter \cup { Append(q, x) : q \in { r \in shorter : Len(r) = n - 1 }, x \in S }

RowKey(row) == <<row.symbol, row.trade_date>>

\* INSERT ... ON CONFLICT(symbol, trade_date) DO UPDATE ... without the
\* WHERE clause: the conflicting row is always overwritten
upsert_row_always(table, record) ==
    LET new == [ symbol |-> Upper(record.symbol),
                 timestamp |-> Val(record.timestamp),
                 trade_date |-> SplitFirst(Val(record.timestamp), "space"),
                 payload |-> record ]
    IN  { r \in table : RowKey(r) # RowKey(new) } \cup {new}

\* INSERT ... ON CONFLICT(symbol, trade_date) DO UPDATE ...
\* WHERE excluded.timestamp > analysis_records.timestamp
upsert_row(table, record) ==
    LET new == [ symbol |-> Upper(record.symbol),
                 timestamp |-> Val(record.timestamp),
                 trade_date |-> SplitFirst(Val(record.timestamp), "space"),
                 payload |-> record ]
        conflict == { r \in table : RowKey(r) = RowKey(new) }
    IN  IF conflict = {} THEN table \cup {new}
        ELSE IF \A r \in conflict : TimestampGreater(new.timestamp, r.timestamp)
        THEN (table \ conflict) \cup {new}
        ELSE table

\* a record without symbol or timestamp is skipped
RepoRecordValid(record) == record.symbol # "" /\ IsNum(record.timestamp)

RECURSIVE upsert_daily_latest(_, _)
upsert_daily_latest(table, records) ==
    IF records = <<>> THEN table
    ELSE upsert_daily_latest(
            IF RepoRecordValid(Head(records)) THEN upsert_row(table, Head(records)) ELSE table,
            Tail(records))

RECURSIVE ValidRecords(_)
ValidRecords(records) ==
    IF records = <<>> THEN {}
    ELSE (IF RepoRecordValid(Head(records)) THEN {Head(records)} ELSE {})
         \cup ValidRecords(Tail(records))

UpsertDailyLatest ==
    /\ \E records \in SeqsUpTo(RepoRecords, MaxBatch) :
          /\ rows' = upsert_daily_latest(rows, records)
          /\ upserted' = upserted \cup ValidRecords(records)
    /\ lastOp' = "upsert_daily_latest"
    /\ UNCHANGED <<perm, data, disk, clock, result, appended, cfg, steps>>

(***************************************************************************)
(* Rolling history cache (core/rolling_cache.py)                           *)
(*                                                                         *)
(* Numbers are fixed point: RelVolTo90D in tenths, the other record        *)
(* fields and VIX in whole points, beta/lambda/alpha in 1/10000.           *)
(***************************************************************************)
SymbolWindow == 60
VixWindow == 20
TicksPerDay == 2

CacheSymbols == {"AAPL"}
ParamKeys == CacheSymbols \cup {"_global"}

EmptySeries ==
    [ RelVolTo90D |-> <<>>, OI_PctRank |-> <<>>, IV30 |-> <<>>, HV20 |-> <<>>,
      timestamps |-> <<>> ]

NoParams == [ beta_t |-> None, lambda_t |-> None, alpha_t |-> None ]

\* a symbol or parameter key that has no entry yet reads as the empty entry
_init_empty_cache ==
    [ symbols |-> [ y \in CacheSymbols |-> EmptySeries ],
      vix     |-> [ values |-> <<>>, timestamps |-> <<>> ],
      params  |-> [ k \in ParamKeys |-> NoParams ],
      meta    |-> [ last_update |-> None ] ]

\* datetime.now().isoformat()
NowIso(now) == Timestamp("iso", now \div TicksPerDay, now % TicksPerDay)
\* datetime.now().strftime('%Y-%m-%d %H:%M:%S')
NowSpace(now) == Timestamp("space", now \div TicksPerDay, now % TicksPerDay)

\* a timestamp that is not a string (a JSON number) has no split()
IsStr(ts) == ts.fmt \in {"iso", "space"}

\* record.get(key, default) or default   for an optional number
OrDefault(x, default) == IF IsNone(x) \/ Val(x) = 0 THEN default ELSE Val(x)

\* record.get("timestamp", datetime.now().isoformat())
RecordTimestamp(record, now) ==
    IF IsNone(record.timestamp) THEN NowIso(now) ELSE Val(record.timestamp)

\* seq[-n:]
LastN(seq, n) ==
    IF Len(seq) > n THEN SubSeq(seq, Len(seq) - n + 1, Len(seq)) ELSE seq

\* seq[:n], the oldest n samples
FirstN(seq, n) == IF Len(seq) > n THEN SubSeq(seq, 1, n) ELSE seq

\* the sample that update_symbol_data appends for a record
SampleOf(record, now) ==
    [ RelVolTo90D |-> OrDefault(record.RelVolTo90D, 10),
      OI_PctRank  |-> OrDefault(record.OI_PctRank, 50),
      IV30        |-> OrDefault(record.IV30, 0),
      HV20        |-> OrDefault(record.HV20, 0),
      timestamps  |-> RecordTimestamp(record, now) ]

SeriesKeys == {"RelVolTo90D", "OI_PctRank", "IV30", "HV20", "timestamps"}

\* update_symbol_data keeping the oldest max_window samples
update_symbol_data_keep_oldest(d, symbol, record, now) ==
    LET sample == SampleOf(record, now)
        old == d.symbols[symbol]
        new == [ k \in SeriesKeys |-> FirstN(Append(old[k], sample[k]), SymbolWindow) ]
    IN  [ d EXCEPT !.symbols[symbol] = new ]

update_symbol_data(d, symbol, record, now) ==
    LET sample == SampleOf(record, now)
        old == d.symbols[symbol]
        new == [ k \in SeriesKeys |-> LastN(Append(old[k], sample[k]), SymbolWindow) ]
    IN  [ d EXCEPT !.symbols[symbol] = new ]

\* update_vix_data(vix_value, timestamp=None): an omitted timestamp is the
\* current time in ISO format; the outcome is the new cache and whether
\* split() raised on a timestamp that is not a string
update_vix_data(d, vix_value, ts, now) ==
    LET timestamp == IF IsNone(ts) THEN NowIso(now) ELSE Val(ts)
        vix_data == d.vix
        n == Len(vix_data.timestamps)
        last == vix_data.timestamps[n]
    IN  IF n > 0 /\ (~IsStr(last) \/ ~IsStr(timestamp))
        THEN [ data |-> d, raised |-> TRUE ]
        ELSE IF n > 0 /\ SplitFirst(last, "iso") = SplitFirst(timestamp, "iso")
        THEN [ data |-> [ d EXCEPT !.vix.values[n] = vix_value,
                                   !.vix.timestamps[n] = timestamp ],
               raised |-> FALSE ]
        ELSE [ data |-> [ d EXCEPT
                   !.vix.values = LastN(Append(@, vix_value), VixWindow),
                   !.vix.timestamps = LastN(Append(@, timestamp), VixWindow) ],
               raised |-> FALSE ]

\* update_param_ema for the per-symbol key
update_param_ema_symbol(d, symbol, beta_t, lambda_t) ==
    [ d EXCEPT !.params[symbol].beta_t = beta_t, !.params[symbol].lambda_t = lambda_t ]

\* update_param_ema for the reserved key "_global"
update_param_ema_global(d, alpha_t) ==
    [ d EXCEPT !.params["_global"].alpha_t = alpha_t ]

\* save_cache: whole-file rewrite
save_cache(d) == d

\* update_cache_with_record writing the file before the EMA state is updated
update_cache_with_record_early_save(d, file, record, vix_value, dynamic_params, now) ==
    LET timestamp == RecordTimestamp(record, now)
        d1 == update_symbol_data(d, record.symbol, record, now)
        r2 == update_vix_data(d1, vix_value, Some(timestamp), now)
        d3 == update_param_ema_symbol(r2.data, record.symbol,
                                      Some(dynamic_params.beta_t), Some(dynamic_params.lambda_t))
        d4 == update_param_ema_global(d3, Some(dynamic_params.alpha_t))
        d5 == [ d4 EXCEPT !.meta.last_update = Some(timestamp) ]
    IN  IF r2.raised
        THEN [ data |-> d1, disk |-> file, raised |-> TRUE ]
        ELSE [ data |-> d5, disk |-> save_cache(r2.data), raised |-> FALSE ]

\* update_cache_with_record: symbol data, VIX, EMA state, meta, then save;
\* an exception of update_vix_data leaves the symbol data appended in memory
\* and the file as it was
update_cache_with_record(d, file, record, vix_value, dynamic_params, now) ==
    LET timestamp == RecordTimestamp(record, now)
        d1 == update_symbol_data(d, record.symbol, record, now)
        r2 == update_vix_data(d1, vix_value, Some(timestamp), now)
        d3 == update_param_ema_symbol(r2.data, record.symbol,
                                      Some(dynamic_params.beta_t), Some(dynamic_params.lambda_t))
        d4 == update_param_ema_global(d3, Some(dynamic_params.alpha_t))
        d5 == [ d4 EXCEPT !.meta.last_update = Some(timestamp) ]
    IN  IF r2.raised
        THEN [ data |-> d1, disk |-> file, raised |-> TRUE ]
        ELSE [ data |-> d5, disk |-> save_cache(d5), raised |-> FALSE ]

(***************************************************************************)
(* Adaptive parameters (core/dynamic_params.py)                            *)
(*                                                                         *)
(* z-scores are in tenths, truncated toward zero; a z-score depends only   *)
(* on differences, so the sums are taken over the differences to the       *)
(* first sample.                                                           *)
(***************************************************************************)
min_samples == 10

\* np.sum, summing the two halves of the list
RECURSIVE SumSeq(_)
SumSeq(s) ==
    IF s = <<>> THEN 0
    ELSE IF Len(s) = 1 THEN s[1]
    ELSE SumSeq(SubSeq(s, 1, Len(s) \div 2)) + SumSeq(SubSeq(s, Len(s) \div 2 + 1, Len(s)))

SumSquares(s) == SumSeq([ i \in 1..Len(s) |-> s[i] * s[i] ])

\* the z-score of a value that lies dx above the first of n samples, from
\* the sum S and the sum of squares Q of the samples' differences to the
\* first one:  z^2 = (n*dx - S)^2 * (n-1) / (n * (n*Q - S^2)),
\* 0 for a constant series, clipped to [-3, 3]
ZFromSums(n, dx, S, Q) ==
    LET num == n * dx - S
        lhs == num * num * (n - 1)
        den == n * (n * Q - S * S)
        mag == IF lhs >= 9 * den THEN 30
               ELSE CHOOSE k \in 0..29 :
                        k * k * den <= 100 * lhs /\ (k + 1) * (k + 1) * den > 100 * lhs
    IN  IF den = 0 THEN 0
        ELSE IF num < 0 THEN 0 - mag ELSE mag

\* compute_z_score: 0 below min_samples, else from mean and sample standard
\* deviation of the history (each sum is taken once)
compute_z_score(current_value, historical_values) ==
    IF Len(historical_values) < min_samples THEN 0
    ELSE CHOOSE z \in
            { ZFromSums(Len(historical_values), current_value - historical_values[1], S, Q) :
                S \in { SumSeq([ i \in 1..Len(historical_values) |->
                                   historical_values[i] - historical_values[1] ]) },
                Q \in { SumSquares([ i \in 1..Len(historical_values) |->
                                       historical_values[i] - historical_values[1] ]) } } : TRUE

\* max(lo, min(hi, x))
Clip(x, lo, hi) == Max2(lo, Min2(hi, x))

\* compute_beta_t without the final clip to the band
compute_beta_t_unclipped(record, history_cache, config) ==
    LET rel_vol == OrDefault(record.RelVolTo90D, 10)
        oi_rank == OrDefault(record.OI_PctRank, 50)
        symbol_history == history_cache.symbols[record.symbol]
        z_rel_vol == compute_z_score(rel_vol, symbol_history.RelVolTo90D)
        z_oi_rank == compute_z_score(oi_rank, symbol_history.OI_PctRank)
    IN  (config.beta_base * (1000 + 15 * z_rel_vol + 10 * z_oi_rank)) \div 1000

\* beta = beta_base * (1 + 0.15 z(RelVol) + 0.10 z(OI_rank)), clipped
compute_beta_t(record, history_cache, config) ==
    LET rel_vol == OrDefault(record.RelVolTo90D, 10)
        oi_rank == OrDefault(record.OI_PctRank, 50)
        symbol_history == history_cache.symbols[record.symbol]
        z_rel_vol == compute_z_score(rel_vol, symbol_history.RelVolTo90D)
        z_oi_rank == compute_z_score(oi_rank, symbol_history.OI_PctRank)
        beta_t == (config.beta_base * (1000 + 15 * z_rel_vol + 10 * z_oi_rank)) \div 1000
    IN  Clip(beta_t, config.beta_min, config.beta_max)

\* lambda = lambda_base * (1 + 0.25 z(IV30) - 0.10 z(HV20)), clipped
compute_lambda_t(record, history_cache, config) ==
    LET iv30 == OrDefault(record.IV30, 0)
        hv20 == OrDefault(record.HV20, 0)
        symbol_history == history_cache.symbols[record.symbol]
        z_iv30 == compute_z_score(iv30, symbol_history.IV30)
        z_hv20 == compute_z_score(hv20, symbol_history.HV20)
        lambda_t == (config.lambda_base * (1000 + 25 * z_iv30 - 10 * z_hv20)) \div 1000
    IN  Clip(lambda_t, config.lambda_min, config.lambda_max)

\* alpha = alpha_base * (1 + 0.4 z(VIX)), clipped
compute_alpha_t(vix_value, history_cache, config) ==
    LET z_vix == compute_z_score(vix_value, history_cache.vix.values)
        alpha_t == (config.alpha_base * (1000 + 40 * z_vix)) \div 1000
    IN  Clip(alpha_t, config.alpha_min, config.alpha_max)

\* EMA with alpha = 2 / (span + 1); the first observation seeds the EMA
apply_ema_smoothing(current_value, previous_ema, span) ==
    IF IsNone(previous_ema) THEN current_value
    ELSE (2 * current_value + (span - 1) * Val(previous_ema)) \div (span + 1)

compute_all_dynamic_params(record, vix_value, history_cache, config) ==
    LET beta_t_raw == compute_beta_t(record, history_cache, config)
        lambda_t_raw == compute_lambda_t(record, history_cache, config)
        alpha_t_raw == compute_alpha_t(vix_value, history_cache, config)
        param_history == history_cache.params[record.symbol]
        alpha_ema_prev == history_cache.params["_global"].alpha_t
    IN  [ beta_t   |-> apply_ema_smoothing(beta_t_raw, param_history.beta_t, config.beta_ema_span),
          lambda_t |-> apply_ema_smoothing(lambda_t_raw, param_history.lambda_t, config.lambda_ema_span),
          alpha_t  |-> apply_ema_smoothing(alpha_t_raw, alpha_ema_prev, config.alpha_ema_span),
          beta_t_raw |-> beta_t_raw,
          lambda_t_raw |-> lambda_t_raw,
          alpha_t_raw |-> alpha_t_raw ]

\* every value of the triple in [0, 1]; the fixed-point values are finite
validate_dynamic_params(params) ==
    \A key \in {"beta_t", "lambda_t", "alpha_t"} :
        ~(params[key] < 0 \/ params[key] > 10000)

\* the defaults of the config.get() calls of dynamic_params.py and DEFAULT_CFG
DefaultCfg ==
    [ enable_dynamic_params |-> TRUE,
      beta_base |-> 2500, beta_min |-> 2000, beta_max |-> 4000,
      lambda_base |-> 4500, lambda_min |-> 3500, lambda_max |-> 5500,
      alpha_base |-> 4500, alpha_min |-> 3500, alpha_max |-> 6000,
      beta_ema_span |-> 10, lambda_ema_span |-> 10, alpha_ema_span |-> 20,
      active_open_ratio_beta |-> 5000 ]

\* a configuration that switches the adaptive parameters off
DisabledCfg == [ DefaultCfg EXCEPT !.enable_dynamic_params = FALSE ]

\* a configuration whose beta lies above 1, so that validation rejects it
OverCfg == [ DefaultCfg EXCEPT !.beta_base = 12000, !.beta_max = 15000 ]

Cfgs == {DefaultCfg, DisabledCfg, OverCfg}

(***************************************************************************)
(* Cleaning and normalisation (core/cleaning.py)                           *)
(*                                                                         *)
(* A field of a raw record is absent, null, a number, or a string that     *)
(* does not parse as a number ("bad").  A string is a sequence of          *)
(* one-character strings.                                                  *)
(***************************************************************************)
Absent == [ k |-> "absent", v |-> 0 ]
Null == [ k |-> "null", v |-> 0 ]
Bad == [ k |-> "bad", v |-> 0 ]
Num(v) == [ k |-> "num", v |-> v ]

\* clean_percent_string / clean_number_string applied by clean_record to a
\* key that is in the record: a number stays, anything unparsable is None
clean_number_string(f) ==
    IF f.k = "absent" THEN Absent ELSE IF f.k = "num" THEN f ELSE Null

Abs(x) == IF x < 0 THEN 0 - x ELSE x

\* normalize_dataset on the one-record dataset, for a percent key: the key is
\* always set (None when missing); a value with 0 < |v| <= 1 is a fraction
\* and is multiplied by 100
normalize_percent_value(f) ==
    IF f.k # "num" THEN Null
    ELSE IF 0 < Abs(f.v) /\ Abs(f.v) <= 1 THEN Num(f.v * 100) ELSE f

\* the cap of IVR, IV_52W_P and OI_PctRank to [0, 100]
cap_rank(f) == IF f.k = "num" THEN Num(Clip(f.v, 0, 100)) ELSE f

DigitChars == <<"0", "1", "2", "3", "4", "5", "6", "7", "8", "9">>
IsDigit(c) == \E i \in 1..10 : DigitChars[i] = c
DigitVal(c) == (CHOOSE i \in 1..10 : DigitChars[i] = c) - 1
UnitChars == {"K", "M", "B", "k", "m", "b"}
UnitUpper(c) == IF c = "k" THEN "K" ELSE IF c = "m" THEN "M" ELSE IF c = "b" THEN "B" ELSE c

\* str.strip() of spaces
RECURSIVE LStrip(_)
LStrip(s) == IF s # <<>> /\ Head(s) = " " THEN LStrip(Tail(s)) ELSE s

RECURSIVE RStrip(_)
RStrip(s) ==
    IF s # <<>> /\ s[Len(s)] = " " THEN RStrip(SubSeq(s, 1, Len(s) - 1)) ELSE s

\* str.replace(',', '')
RECURSIVE RemoveCommas(_)
RemoveCommas(s) ==
    IF s = <<>> THEN <<>>
    ELSE IF Head(s) = "," THEN RemoveCommas(Tail(s))
    ELSE <<Head(s)>> \o RemoveCommas(Tail(s))

\* the longest prefix matching [0-9.]+ (group 1 of the pattern)
RECURSIVE NumberPrefix(_)
NumberPrefix(s) ==
    IF s # <<>> /\ (IsDigit(Head(s)) \/ Head(s) = ".")
    THEN <<Head(s)>> \o NumberPrefix(Tail(s))
    ELSE <<>>

\* float() accepts a run of digits and dots iff it has at least one digit
\* and at most one dot
FloatAccepts(g) ==
    /\ \E i \in 1..Len(g) : IsDigit(g[i])
    /\ Cardinality({ i \in 1..Len(g) : g[i] = "." }) <= 1

\* value of an accepted run, in thousandths (further digits dropped)
RECURSIVE DigitsValue(_)
DigitsValue(g) ==
    IF g = <<>> THEN 0 ELSE DigitsValue(SubSeq(g, 1, Len(g) - 1)) * 10 + DigitVal(g[Len(g)])

Milli(g) ==
    LET dots == { i \in 1..Len(g) : g[i] = "." }
        p == IF dots = {} THEN Len(g) + 1 ELSE CHOOSE i \in dots : TRUE
        int == SubSeq(g, 1, p - 1)
        frac == SubSeq(SubSeq(g, p + 1, Len(g)) \o <<"0", "0", "0">>, 1, 3)
    IN  DigitsValue(int) * 1000 + DigitsValue(frac)

\* clean_notional_string of a string: re.match(r'([0-9.]+)\s*([KMBkmb]?)');
\* without a match float(s) is tried and its failure gives None; with a
\* match float(group 1) is called unguarded
clean_notional_string(str) ==
    LET t == RemoveCommas(RStrip(LStrip(str)))
        g == NumberPrefix(t)
        rest == LStrip(SubSeq(t, Len(g) + 1, Len(t)))
        unit == IF rest # <<>> /\ Head(rest) \in UnitChars THEN UnitUpper(Head(rest)) ELSE ""
    IN  IF g = <<>> THEN [ raised |-> FALSE, value |-> None ]
        ELSE IF ~FloatAccepts(g) THEN [ raised |-> TRUE, value |-> None ]
        ELSE [ raised |-> FALSE, value |-> Some([ milli |-> Milli(g), unit |-> unit ]) ]

\* clean_record followed by normalize_dataset([cleaned])[0]
normalize_record(raw) ==
    LET notional == IF IsNone(raw.CallNotional)
                    THEN [ raised |-> FALSE, value |-> None ]
                    ELSE clean_notional_string(Val(raw.CallNotional))
    IN  [ raised |-> notional.raised,
          record |->
            [ raw EXCEPT
                !.RelVolTo90D = clean_number_string(@),
                !.IV30 = clean_number_string(@),
                !.HV20 = clean_number_string(@),
                !.OI_PctRank = cap_rank(normalize_percent_value(clean_number_string(@))),
                !.IVR = cap_rank(normalize_percent_value(clean_number_string(@))),
                !.IV30ChgPct = normalize_percent_value(clean_number_string(@)),
                !.CallNotional = notional.value ] ]

(***************************************************************************)
(* calculate_analysis (core/analyzer.py): adaptive parameters, the         *)
(* formatting of the driver factors, the result and the cache update       *)
(***************************************************************************)
\* record.get(key, default) or default   reads absent and None alike
FieldOpt(f) == IF f.k = "num" THEN Some(f.v) ELSE None

\* the normalized record as rolling_cache.py and dynamic_params.py read it
CacheView(normed) ==
    [ symbol |-> normed.symbol,
      RelVolTo90D |-> FieldOpt(normed.RelVolTo90D),
      OI_PctRank |-> FieldOpt(normed.OI_PctRank),
      IV30 |-> FieldOpt(normed.IV30),
      HV20 |-> FieldOpt(normed.HV20),
      timestamp |-> normed.timestamp ]

\* "LIST" stands for a symbol given as a JSON array, which cannot be a
\* dictionary key
IsHashable(symbol) == symbol # "LIST"

\* f"{normed.get(key, default):.2f}" raises TypeError on None
FormatRaises(f) == f.k = "null"

\* days_until(parse_earnings_date(rec.get("Earnings"))), counted from today
days_until(d, now) == IF IsNone(d) THEN None ELSE Some(Val(d) - (now \div TicksPerDay))

\* the first point of the call that raises, "" when none does
RaisedAt(cleaned, normed) ==
    IF cleaned.raised THEN "cleaning.py:50"
    ELSE IF FormatRaises(normed.RelVolTo90D) THEN "analyzer.py:272"
    ELSE IF FormatRaises(normed.IVR) THEN "analyzer.py:290"
    ELSE IF FormatRaises(normed.IV30ChgPct) THEN "analyzer.py:293"
    ELSE ""

\* the try block of the adaptive parameters: None when they are switched
\* off, when the computation raises, or when validation rejects the triple
DynamicParams(normed, vix_value, history_cache, config) ==
    IF ~config.enable_dynamic_params THEN None
    ELSE IF ~IsHashable(normed.symbol) THEN None
    ELSE CHOOSE checked \in
            { IF validate_dynamic_params(dp) THEN Some(dp) ELSE None :
                dp \in { compute_all_dynamic_params(CacheView(normed), vix_value, history_cache, config) } } : TRUE

NoOutput ==
    [ dynamic_params |-> None, dynamic_apply |-> FALSE, beta_t |-> 0,
      lambda_t |-> None, alpha_t |-> None, dynamic_gate |-> 0,
      days_to_earnings |-> None, timestamp |-> None ]

\* what the result reports and what scoring uses: the adaptive parameters
\* when they apply, else the static beta and no dynamic gate; the days to
\* earnings counted from today; the wall-clock timestamp
OutputOf(normed, dynamic_params, config, now) ==
    LET dynamic_apply == ~IsNone(dynamic_params)
    IN  [ dynamic_params |-> dynamic_params,
          dynamic_apply |-> dynamic_apply,
          beta_t |-> IF dynamic_apply THEN Val(dynamic_params).beta_t
                     ELSE config.active_open_ratio_beta,
          lambda_t |-> IF dynamic_apply THEN Some(Val(dynamic_params).lambda_t) ELSE None,
          alpha_t |-> IF dynamic_apply THEN Some(Val(dynamic_params).alpha_t) ELSE None,
          dynamic_gate |-> IF dynamic_apply
                           THEN 10000 + (Val(dynamic_params).alpha_t * Val(dynamic_params).lambda_t) \div 10000
                           ELSE 10000,
          days_to_earnings |-> days_until(normed.Earnings, now),
          timestamp |-> Some(NowSpace(now)) ]

\* the cache update at the end of the call: skipped when the call raised,
\* when no adaptive parameters apply, or when the VIX value is 0
CacheUpdate(cleaned, dynamic_params, vix_value, d, file, now) ==
    IF RaisedAt(cleaned, cleaned.record) = "" /\ ~IsNone(dynamic_params) /\ vix_value # 0
    THEN [ done |-> TRUE,
           upd |-> update_cache_with_record(d, file, CacheView(cleaned.record), vix_value,
                                            Val(dynamic_params), now) ]
    ELSE [ done |-> FALSE, upd |-> [ data |-> d, disk |-> file, raised |-> FALSE ] ]

\* the outcome of a call from its parts
AnalysisOutcome(cleaned, computed, output, update, config, now) ==
    [ raised_at |-> RaisedAt(cleaned, cleaned.record),
      rejected |-> ~cleaned.raised /\ config.enable_dynamic_params /\ IsNone(computed),
      output |-> IF RaisedAt(cleaned, cleaned.record) = "" THEN output ELSE NoOutput,
      cache_update |-> IF ~update.done THEN "none"
                       ELSE IF update.upd.raised THEN "raised" ELSE "saved",
      sample |-> IF update.done THEN Some(SampleOf(CacheView(cleaned.record), now)) ELSE None,
      data |-> update.upd.data,
      disk |-> update.upd.disk ]

\* calculate_analysis with the cache updated before the adaptive parameters
\* that are used and reported are computed
calculate_analysis_update_first(raw, vix_value, config, d, file, now) ==
    CHOOSE outcome \in UNION UNION
        { { { AnalysisOutcome(cleaned, early,
                  OutputOf(cleaned.record,
                           DynamicParams(cleaned.record, vix_value, update.upd.data, config),
                           config, now),
                  update, config, now) :
                update \in { CacheUpdate(cleaned, early, vix_value, d, file, now) } } :
              early \in { DynamicParams(cleaned.record, vix_value, d, config) } } :
            cleaned \in { normalize_record(raw) } } : TRUE

\* calculate_analysis: the outcome of the call and the cache and file after
\* it (the record is cleaned once, the adaptive parameters are computed
\* once, the cache is updated once)
calculate_analysis(raw, vix_value, config, d, file, now) ==
    CHOOSE outcome \in UNION UNION
        { { { AnalysisOutcome(cleaned, dynamic_params,
                  OutputOf(cleaned.record, dynamic_params, config, now),
                  update, config, now) :
                update \in { CacheUpdate(cleaned, dynamic_params, vix_value, d, file, now) } } :
              dynamic_params \in { DynamicParams(cleaned.record, vix_value, d, config) } } :
            cleaned \in { normalize_record(raw) } } : TRUE

(***************************************************************************)
(* Inputs and start-up state of the cache and of the analysis              *)
(***************************************************************************)
WarmDays == 59
MaxOps == 2
MaxTicks == 2

\* a complete record of a quiet day; it carries no timestamp of its own
BaseRecord ==
    [ symbol |-> "AAPL",
      RelVolTo90D |-> Num(11), OI_PctRank |-> Num(50), IV30 |-> Num(2), HV20 |-> Num(2),
      IVR |-> Num(20), IV30ChgPct |-> Num(2),
      CallNotional |-> Some(<<"2", ".", "5", " ", "M">>),
      Earnings |-> Some(WarmDays + 5),
      timestamp |-> None ]

\* a record far above the recent history in volume, open interest and IV
HotRecord ==
    [ BaseRecord EXCEPT !.RelVolTo90D = Num(13), !.OI_PctRank = Num(53), !.IV30 = Num(4) ]

\* the record and the VIX close of day i of the history
WarmRecord(i) ==
    [ BaseRecord EXCEPT
        !.RelVolTo90D = Num(10 + (i % 2)),
        !.OI_PctRank = Num(50 + (IF i % 3 = 0 THEN 1 ELSE 0)),
        !.IV30 = Num(2 + (i % 2)),
        !.HV20 = Num(2 + ((i \div 2) % 2)) ]

WarmVix(i) == 18 + (IF i % 4 = 0 THEN 2 ELSE 0)

EmptyLog == [ y \in CacheSymbols |-> EmptySeries ]

\* the history extended by the sample of one update, if there was one
Log(log, symbol, sample) ==
    IF IsNone(sample) THEN log
    ELSE [ log EXCEPT ![symbol] = [ k \in SeriesKeys |-> Append(@[k], Val(sample)[k]) ] ]

\* one analysis on day i of the history
WarmStep(config, s, i) ==
    LET r == calculate_analysis(WarmRecord(i), WarmVix(i), config, s.data, s.disk, i * TicksPerDay)
    IN  [ data |-> r.data, disk |-> r.disk, appended |-> Log(s.appended, "AAPL", r.sample) ]

\* the process after one analysis per day on each of the days i..n, day by day
RECURSIVE WarmFold(_, _, _, _)
WarmFold(config, s, i, n) ==
    IF i > n THEN s
    ELSE LET next == WarmStep(config, s, i)
         IN  IF next.data = next.disk THEN WarmFold(config, next, i + 1, n) ELSE next

EmptyState ==
    [ data |-> _init_empty_cache, disk |-> _init_empty_cache, appended |-> EmptyLog ]

\* the process after the first n days, folded in two halves
WarmState(config, n) ==
    WarmFold(config, WarmFold(config, EmptyState, 1, n \div 2), n \div 2 + 1, n)

StartClock == WarmDays * TicksPerDay

\* timestamps a caller can put on a record handed in at time now: the
\* "%Y-%m-%d %H:%M:%S" format of stored results, or a JSON number
SpaceNow(now) == Some(NowSpace(now))
NumberTimestamp == Some(Timestamp("int", 0, 0))

\* raw records handed to calculate_analysis: complete ones, with and
\* without a timestamp of their own, and ones with a missing or unparsable
\* field or a symbol that is not a string
AnalysisRecords(now) ==
    { BaseRecord, HotRecord,
      [ BaseRecord EXCEPT !.timestamp = SpaceNow(now) ],
      [ BaseRecord EXCEPT !.timestamp = NumberTimestamp ],
      [ BaseRecord EXCEPT !.IVR = Absent ],
      [ BaseRecord EXCEPT !.IV30ChgPct = Bad ],
      [ BaseRecord EXCEPT !.RelVolTo90D = Null ],
      [ BaseRecord EXCEPT !.RelVolTo90D = Absent ],
      [ BaseRecord EXCEPT !.CallNotional = Some(<<"1", ".", "2", ".", "3">>) ],
      [ BaseRecord EXCEPT !.symbol = "LIST" ] }

VixValues == {18, 30}

\* the calls made: every record on a quiet VIX, the hot record also on a
\* VIX spike, the complete record also with a VIX of 0
AnalysisInputs(now) ==
    { [ record |-> r, vix_value |-> 18 ] : r \in AnalysisRecords(now) }
    \cup { [ record |-> HotRecord, vix_value |-> 30 ], [ record |-> BaseRecord, vix_value |-> 0 ] }

\* records handed to the cache directly
CacheRecords(now) ==
    { [ CacheView(BaseRecord) EXCEPT !.RelVolTo90D = v, !.timestamp = ts ] :
          v \in {None, Some(13)}, ts \in {None, SpaceNow(now)} }

(***************************************************************************)
(* Actions of the cache and of the analysis                                *)
(***************************************************************************)
Tick ==
    /\ clock < StartClock + MaxTicks
    /\ clock' = clock + 1
    /\ UNCHANGED <<perm, data, disk, result, appended, cfg, rows, upserted, lastOp, steps>>

UpdateSymbolData ==
    /\ steps < MaxOps
    /\ \E record \in CacheRecords(clock) :
         /\ data' = update_symbol_data(data, record.symbol, record, clock)
         /\ appended' = Log(appended, record.symbol, Some(SampleOf(record, clock)))
    /\ lastOp' = "update_symbol_data"
    /\ steps' = steps + 1
    /\ UNCHANGED <<perm, disk, clock, result, cfg, rows, upserted>>

UpdateVixData ==
    /\ steps < MaxOps
    /\ \E vix_value \in VixValues, ts \in {None, SpaceNow(clock), NumberTimestamp} :
         LET r == update_vix_data(data, vix_value, ts, clock)
         IN  /\ data' = r.data
             /\ lastOp' = IF r.raised THEN "update_vix_data raised" ELSE "update_vix_data"
    /\ steps' = steps + 1
    /\ UNCHANGED <<perm, disk, clock, result, appended, cfg, rows, upserted>>

UpdateParamEma ==
    /\ steps < MaxOps
    /\ \/ data' = update_param_ema_symbol(data, "AAPL", Some(cfg.beta_base), Some(cfg.lambda_base))
       \/ data' = update_param_ema_global(data, Some(cfg.alpha_base))
    /\ lastOp' = "update_param_ema"
    /\ steps' = steps + 1
    /\ UNCHANGED <<perm, disk, clock, result, appended, cfg, rows, upserted>>

SaveCache ==
    /\ steps < MaxOps
    /\ disk' = save_cache(data)
    /\ lastOp' = "save_cache"
    /\ steps' = steps + 1
    /\ UNCHANGED <<perm, data, clock, result, appended, cfg, rows, upserted>>

UpdateCacheWithRecord ==
    /\ steps < MaxOps
    /\ \E record \in CacheRecords(clock) \cup {[ CacheView(BaseRecord) EXCEPT !.timestamp = NumberTimestamp ]}, vix_value \in VixValues :
         LET dp == compute_all_dynamic_params(record, vix_value, data, cfg)
             r == update_cache_with_record(data, disk, record, vix_value, dp, clock)
         IN  /\ data' = r.data
             /\ disk' = r.disk
             /\ appended' = Log(appended, record.symbol, Some(SampleOf(record, clock)))
             /\ lastOp' = IF r.raised THEN "update_cache_with_record raised"
                          ELSE "update_cache_with_record"
    /\ steps' = steps + 1
    /\ UNCHANGED <<perm, clock, result, cfg, rows, upserted>>

\* whether two outcomes agree when the result's timestamp is left aside
SameButTimestamp(a, b) ==
    /\ a.raised_at = b.raised_at
    /\ [ a.output EXCEPT !.timestamp = None ] = [ b.output EXCEPT !.timestamp = None ]

CalculateAnalysis ==
    /\ steps < MaxOps
    /\ \E in \in AnalysisInputs(clock) :
       \E r \in { calculate_analysis(in.record, in.vix_value, cfg, data, disk, clock) } :
         LET raw == in.record
             vix_value == in.vix_value
             repeat == /\ result.called
                       /\ result.record = raw
                       /\ result.vix_value = vix_value
                       /\ result.cache_before = data
         IN  /\ result' =
                    [ called |-> TRUE, record |-> raw, vix_value |-> vix_value,
                      cache_before |-> data, at |-> clock,
                      raised_at |-> r.raised_at, rejected |-> r.rejected,
                      output |-> r.output, cache_update |-> r.cache_update,
                      repeat |-> repeat,
                      same_day |-> repeat /\ result.at \div TicksPerDay = clock \div TicksPerDay,
                      same_output |-> repeat /\ result.raised_at = r.raised_at
                                            /\ result.output = r.output,
                      same_but_timestamp |-> repeat /\ SameButTimestamp(result, r) ]
             /\ data' = r.data
             /\ disk' = r.disk
             /\ appended' = Log(appended, "AAPL", r.sample)
    /\ lastOp' = "calculate_analysis"
    /\ steps' = steps + 1
    /\ UNCHANGED <<perm, clock, cfg, rows, upserted>>

(***************************************************************************)
(* Start-up values of the state not touched by a specification             *)
(***************************************************************************)
NoResult == [ called |-> FALSE ]

(***************************************************************************)
(* Specification of the permission guard over all of its inputs            *)
(***************************************************************************)
InitGuard ==
    /\ perm \in PermissionInputs
    /\ data = <<>>
    /\ disk = <<>>
    /\ clock = 0
    /\ result = NoResult
    /\ appended = <<>>
    /\ cfg = <<>>
    /\ rows = {}
    /\ upserted = {}
    /\ lastOp = "init"
    /\ steps = 0

NextGuard == EvaluatePermission

SpecGuard == InitGuard /\ [][NextGuard]_vars

\* C1: within one evaluation the permission only escalates: the severity
\* after the posture overlay is never lower than after pass one, and the
\* severity reported in the result is never lower than either.
MonotonicSeverity ==
    perm.evaluated =>
        /\ severity_map(perm.overlay.trade_permission)
              >= severity_map(perm.pass_one.trade_permission)
        /\ severity_map(perm.reported.trade_permission)
              >= severity_map(perm.overlay.trade_permission)
        /\ severity_map(perm.reported.trade_permission)
              >= severity_map(perm.pass_one.trade_permission)

\* a posture overlay is applied on top of a pass-one result that is more
\* severe than the overlay's own target
MonotonicSeverityWitness ==
    /\ perm.evaluated
    /\ perm.pass_one.trade_permission = "NO_TRADE"
    /\ perm.posture_5d = "COUNTERTREND"
    /\ perm.reported.trade_permission = "NO_TRADE"

\* C2: data_quality LOW gives NO_TRADE for every quadrant, disables all
\* five short-vol structures, and returns at once: the only reason of pass
\* one is DATA_QUALITY_LOW, whatever the earnings, confidence or fear inputs.
LowQualityShortCircuit ==
    (perm.evaluated /\ perm.data_quality = "LOW") =>
        /\ perm.pass_one.trade_permission = "NO_TRADE"
        /\ all_short_structures \subseteq perm.pass_one.disabled_structures
        /\ perm.pass_one.permission_reasons = <<"DATA_QUALITY_LOW">>

\* LOW data quality on a short-vol quadrant inside the earnings window, with
\* low confidence and a fear reason: every later check would have fired
LowQualityShortCircuitWitness ==
    /\ perm.evaluated
    /\ perm.data_quality = "LOW"
    /\ QuadrantHasShortVol(perm.quadrant)
    /\ perm.days_to_earnings = Some(0)
    /\ perm.confidence = "LOW"
    /\ perm.fear_reasons # <<>>
    /\ perm.pass_one.trade_permission = "NO_TRADE"

(***************************************************************************)
(* Specification of the records repository                                 *)
(***************************************************************************)
InitRepo ==
    /\ perm = NoPerm
    /\ data = <<>>
    /\ disk = <<>>
    /\ clock = 0
    /\ result = NoResult
    /\ appended = <<>>
    /\ cfg = <<>>
    /\ rows = {}
    /\ upserted = {}
    /\ lastOp = "init"
    /\ steps = 0

NextRepo == UpsertDailyLatest

SpecRepo == InitRepo /\ [][NextRepo]_vars

\* the valid records upserted so far for the key of a row
UpsertedFor(row) ==
    { u \in upserted : /\ Upper(u.symbol) = row.symbol
                       /\ SplitFirst(Val(u.timestamp), "space") = row.trade_date }

\* C7: the table holds at most one row per (symbol, trade date), every
\* upserted (symbol, trade date) has its row, and the row is an upserted
\* record carrying the latest timestamp upserted for that symbol and date.
UniqueLatestPerDay ==
    /\ \A r1, r2 \in rows : RowKey(r1) = RowKey(r2) => r1 = r2
    /\ \A u \in upserted :
          \E r \in rows : /\ r.symbol = Upper(u.symbol)
                          /\ r.trade_date = SplitFirst(Val(u.timestamp), "space")
    /\ \A r \in rows :
          /\ r.payload \in UpsertedFor(r)
          /\ r.timestamp = Val(r.payload.timestamp)
          /\ \A u \in UpsertedFor(r) : ~TimestampGreater(Val(u.timestamp), r.timestamp)

\* a symbol and date were upserted with an older and with a later timestamp,
\* and the row holds the later one
UniqueLatestPerDayWitness ==
    \E r \in rows : \E u \in UpsertedFor(r) :
        /\ TimestampGreater(r.timestamp, Val(u.timestamp))
        /\ Cardinality(rows) >= 2

(***************************************************************************)
(* Specification of the rolling cache: its methods called on their own     *)
(* and through update_cache_with_record, from an empty and from a warm     *)
(* cache                                                                   *)
(***************************************************************************)
InitCache ==
    /\ perm = NoPerm
    /\ cfg = DefaultCfg
    /\ \E i \in {0, WarmDays} :
         /\ data = WarmState(cfg, i).data
         /\ disk = WarmState(cfg, i).disk
         /\ appended = WarmState(cfg, i).appended
    /\ clock = StartClock
    /\ result = NoResult
    /\ rows = {}
    /\ upserted = {}
    /\ lastOp = "init"
    /\ steps = 0

NextCache ==
    \/ Tick
    \/ UpdateSymbolData
    \/ UpdateVixData
    \/ UpdateParamEma
    \/ SaveCache
    \/ UpdateCacheWithRecord

SpecCache == InitCache /\ [][NextCache]_vars

\* C8: update_vix_data appends a VIX sample unless its timestamp falls on
\* the calendar day of the last stored sample, in which case it overwrites
\* that sample: an update dated on the day of the last stored sample leaves
\* the length of the VIX window as it was, and the window never holds more
\* than 20 samples.  (Every timestamp handed in is dated on the clock's day.)
VixWindowOnePerDay ==
    /\ [](Len(data.vix.values) <= VixWindow)
    /\ [][ ( /\ steps' = steps + 1
             /\ data.vix.timestamps # <<>>
             /\ IsStr(data.vix.timestamps[Len(data.vix.timestamps)])
             /\ data.vix.timestamps[Len(data.vix.timestamps)].day = clock \div TicksPerDay )
           => Len(data'.vix.values) = Len(data.vix.values) ]_vars

\* C9: every series of a symbol holds at most 60 samples, and they are the
\* most recently appended ones in arrival order.
SeriesAreLatestSamples ==
    \A y \in CacheSymbols : \A k \in SeriesKeys :
        /\ Len(data.symbols[y][k]) <= SymbolWindow
        /\ data.symbols[y][k] = LastN(appended[y][k], SymbolWindow)

\* a symbol update has pushed the oldest sample out of a full window
SeriesAreLatestSamplesWitness ==
    /\ lastOp = "update_symbol_data"
    /\ Len(appended["AAPL"].IV30) > SymbolWindow
    /\ Len(data.symbols["AAPL"].IV30) = SymbolWindow
    /\ data.symbols["AAPL"].timestamps[1] = appended["AAPL"].timestamps[Len(appended["AAPL"].timestamps) - SymbolWindow + 1]

UpdateOps ==
    {"update_symbol_data", "update_vix_data", "update_param_ema", "update_cache_with_record"}

InitAnalysis ==
    /\ perm = NoPerm
    /\ cfg \in Cfgs
    /\ \E i \in {0, WarmDays} :
         /\ data = WarmState(cfg, i).data
         /\ disk = WarmState(cfg, i).disk
         /\ appended = WarmState(cfg, i).appended
    /\ clock = StartClock
    /\ result = NoResult
    /\ rows = {}
    /\ upserted = {}
    /\ lastOp = "init"
    /\ steps = 0

NextAnalysis == Tick \/ CalculateAnalysis

SpecAnalysis == InitAnalysis /\ [][NextAnalysis]_vars

\* C3: calculate_analysis never raises, whatever fields of the record are
\* missing, null or unparsable.
AnalysisNeverRaises == result.called => result.raised_at = ""

InBand(v, lo, hi) == lo <= v /\ v <= hi

\* the EMA state of a cache lies within the bands of the configuration
EmaInBand(d) ==
    /\ \A y \in CacheSymbols :
          /\ ~IsNone(d.params[y].beta_t) => InBand(Val(d.params[y].beta_t), cfg.beta_min, cfg.beta_max)
          /\ ~IsNone(d.params[y].lambda_t) => InBand(Val(d.params[y].lambda_t), cfg.lambda_min, cfg.lambda_max)
    /\ ~IsNone(d.params["_global"].alpha_t) =>
          InBand(Val(d.params["_global"].alpha_t), cfg.alpha_min, cfg.alpha_max)

RejectionFallsBackToStatic ==
    (result.called /\ result.rejected) =>
        /\ result.raised_at = ""
        /\ result.output.dynamic_params = None
        /\ ~result.output.dynamic_apply
        /\ result.output.beta_t = cfg.active_open_ratio_beta
        /\ result.output.dynamic_gate = 10000

(***************************************************************************)
(* VIX acquisition (core/market_data.py) as the orchestrator uses it.      *)
(* VIX values are whole index points, times are seconds.                   *)
(***************************************************************************)
VIX_CACHE_TTL == 21600

validate_vix(vix_value) == ~(vix_value < 5 \/ vix_value > 100)

\* the file holds None (no file) or the record written by the last save
_load_vix_from_cache(file, now) ==
    IF IsNone(file) THEN None
    ELSE IF now - Val(file).timestamp < VIX_CACHE_TTL THEN Some(Val(file).vix)
    ELSE None

_save_vix_to_cache(vix_value, source, now) ==
    Some([ vix |-> vix_value, timestamp |-> now, source |-> source ])

\* sources: what each provider answers at this call (None = it failed)
get_current_vix(sources, file, now, use_cache) ==
    IF sources.ibkr_available /\ IsNum(sources.ibkr)
    THEN [ vix |-> sources.ibkr, file |-> _save_vix_to_cache(Val(sources.ibkr), "IBKR", now) ]
    ELSE IF use_cache /\ IsNum(_load_vix_from_cache(file, now))
    THEN [ vix |-> _load_vix_from_cache(file, now), file |-> file ]
    ELSE IF IsNum(sources.yahoo)
    THEN [ vix |-> sources.yahoo, file |-> _save_vix_to_cache(Val(sources.yahoo), "Yahoo", now) ]
    ELSE IF sources.api_key /\ IsNum(sources.alpha_vantage)
    THEN [ vix |-> sources.alpha_vantage, file |-> _save_vix_to_cache(Val(sources.alpha_vantage), "AlphaVantage", now) ]
    ELSE [ vix |-> None, file |-> file ]

get_vix_with_fallback(sources, file, now, default) ==
    LET got == get_current_vix(sources, file, now, TRUE)
    IN  [ vix |-> IF IsNone(got.vix) THEN default ELSE Val(got.vix),
          provider |-> got.vix,
          file |-> got.file ]

\* calculate_analysis: the VIX value the scoring uses
scoring_vix(vix_value, vix_fallback_value, sources, file, now) ==
    IF IsNone(vix_value)
    THEN get_vix_with_fallback(sources, file, now, vix_fallback_value)
    ELSE [ vix |-> Val(vix_value), provider |-> None, file |-> file ]

VixTimes == { 30000 }
VixQuotes == { None, Some(3), Some(20), Some(150) }
VixSources ==
    [ ibkr_available : BOOLEAN, ibkr : { None, Some(20), Some(150) },
      yahoo : VixQuotes, api_key : BOOLEAN, alpha_vantage : { None, Some(20) } ]
VixCacheFiles(now) ==
    { None }
    \cup { Some([ vix |-> v, timestamp |-> now - age, source |-> "Yahoo" ]) :
              v \in { 20, 150 }, age \in { VIX_CACHE_TTL - 1, VIX_CACHE_TTL } }
VixFallbacks == { 18, 25 }

VixInputs ==
    { [ called |-> FALSE, vix_value |-> None, vix_fallback_value |-> d,
        sources |-> s, file |-> f, now |-> t ] :
          d \in VixFallbacks, s \in VixSources, f \in UNION { VixCacheFiles(n) : n \in VixTimes }, t \in VixTimes }

ScoringVix ==
    /\ ~result.called
    /\ \E r \in { scoring_vix(result.vix_value, result.vix_fallback_value, result.sources, result.file, result.now) } :
          result' = [ called |-> TRUE, vix_value |-> result.vix_value,
                      vix_fallback_value |-> result.vix_fallback_value,
                      sources |-> result.sources, file |-> result.file, now |-> result.now,
                      provider |-> r.provider, vix |-> r.vix, file_after |-> r.file ]
    /\ lastOp' = "scoring_vix"
    /\ UNCHANGED <<perm, data, disk, clock, appended, cfg, rows, upserted, steps>>

InitVix ==
    /\ result \in VixInputs
    /\ perm = NoPerm
    /\ data = <<>>
    /\ disk = <<>>
    /\ clock = 0
    /\ appended = <<>>
    /\ cfg = <<>>
    /\ rows = {}
    /\ upserted = {}
    /\ lastOp = "init"
    /\ steps = 0

NextVix == ScoringVix

SpecVix == InitVix /\ [][NextVix]_vars

\* C11: when the caller passes no VIX, the value used for scoring is the
\* provider value only if one is available and lies in [5,100]; otherwise
\* (no source answers, or the value is outside the band) it is the fallback.
VixInBandOrFallback ==
    result.called =>
        result.vix = IF IsNum(result.provider) /\ validate_vix(Val(result.provider))
                     THEN Val(result.provider)
                     ELSE result.vix_fallback_value

(***************************************************************************)
(* Strategy selector (core/strategy.py).  A note is a sequence of strings; *)
(* a description is a sequence of characters.  The strategy map is         *)
(* external configuration: the bundle found for the quadrant is an input.  *)
(***************************************************************************)
MaxStructures == 2

_infer_direction(quadrant_key) ==
    IF quadrant_key \in { "bull_long_vol", "bull_short_vol" } THEN "bull"
    ELSE IF quadrant_key \in { "bear_long_vol", "bear_short_vol" } THEN "bear"
    ELSE "neutral"

_infer_vol_bias(quadrant_key) ==
    IF quadrant_key \in { "bull_long_vol", "bear_long_vol" } THEN "long_vol"
    ELSE IF quadrant_key \in { "bull_short_vol", "bear_short_vol" } THEN "short_vol"
    ELSE "neutral"

_SAFE_DEFAULT_STRUCTURE(quadrant_key) ==
    [ name |-> "defined_risk_vertical", risk_defined |-> TRUE,
      direction |-> _infer_direction(quadrant_key),
      vol_bias |-> _infer_vol_bias(quadrant_key),
      notes |-> << <<"safe default">> >> ]

\* one item of the structured list, from one raw structure of the bundle
StructureItem(raw, quadrant_key) ==
    [ name |-> IF raw.name = "" THEN "unknown_structure" ELSE raw.name,
      risk_defined |-> raw.risk_defined,
      direction |-> _infer_direction(quadrant_key),
      vol_bias |-> _infer_vol_bias(quadrant_key),
      notes |-> (IF RStrip(LStrip(raw.description_zh)) # <<>>
                 THEN << RStrip(LStrip(raw.description_zh)) >> ELSE <<>>)
                \o raw.notes ]

_build_structures_from_bundle(bundle) ==
    IF bundle.structures # <<>>
    THEN [ i \in 1..Len(bundle.structures) |->
              StructureItem(bundle.structures[i], bundle._quadrant_key) ]
    ELSE << _SAFE_DEFAULT_STRUCTURE(bundle._quadrant_key) >>

_build_disable_note(permission_reasons) ==
    IF permission_reasons = <<>> THEN <<"disabled", "by trade permission">>
    ELSE <<"disabled">> \o FirstN(permission_reasons, 3)

\* the names the disabled set holds: falsy names are dropped
DisabledNames(disabled_structures) ==
    { disabled_structures[i] : i \in 1..Len(disabled_structures) } \ { "" }

\* apply_disabled_structures that drops the disabled structures
apply_disabled_structures_drop(strategy_structures, disabled_structures, permission_reasons) ==
    LET keep(item) == item.name \notin DisabledNames(disabled_structures)
        kept == SelectSeq(strategy_structures, keep)
    IN  [ i \in 1..Len(kept) |->
            [ name |-> kept[i].name, risk_defined |-> kept[i].risk_defined,
              direction |-> kept[i].direction, vol_bias |-> kept[i].vol_bias,
              notes |-> kept[i].notes, enabled |-> TRUE ] ]

apply_disabled_structures(strategy_structures, disabled_structures, permission_reasons) ==
    LET disabled == DisabledNames(disabled_structures)
        disabled_note == _build_disable_note(permission_reasons)
    IN  [ i \in 1..Len(strategy_structures) |->
            LET item == strategy_structures[i]
                enabled == item.name \notin disabled
            IN  [ name |-> item.name, risk_defined |-> item.risk_defined,
                  direction |-> item.direction, vol_bias |-> item.vol_bias,
                  notes |-> IF enabled THEN item.notes
                            ELSE Append(item.notes, disabled_note),
                  enabled |-> enabled ] ]

get_strategy_structures(bundle, disabled_structures, permission_reasons) ==
    apply_disabled_structures(_build_structures_from_bundle(bundle),
                              disabled_structures, permission_reasons)

RawStructures ==
    [ name : { "", "iron_condor", "credit_spread" }, risk_defined : { TRUE },
      description_zh : { <<>>, <<" ">>, <<"d", " ">> }, notes : { <<>> } ]
Bundles ==
    [ _quadrant_key : { "bull_short_vol", "neutral_watch" },
      structures : SeqsUpTo(RawStructures, MaxStructures) ]
DisabledLists ==
    { <<>>, <<"">>, <<"iron_condor">>, <<"credit_spread", "iron_condor">>,
      <<"unknown_structure", "short_strangle">> }
ReasonLists ==
    { <<>>, <<"EARNINGS_WINDOW">>,
      <<"DATA_QUALITY_MED", "EARNINGS_WINDOW", "LOW_CONFIDENCE", "POSTURE_CHOP">> }

StrategyInputs ==
    [ called : { FALSE }, bundle : Bundles, disabled_structures : DisabledLists,
      permission_reasons : ReasonLists ]

GetStrategyStructures ==
    /\ ~result.called
    /\ result' =
          [ called |-> TRUE, bundle |-> result.bundle,
            disabled_structures |-> result.disabled_structures,
            permission_reasons |-> result.permission_reasons,
            candidates |-> _build_structures_from_bundle(result.bundle),
            strategy_structures |->
                get_strategy_structures(result.bundle, result.disabled_structures,
                                        result.permission_reasons) ]
    /\ lastOp' = "get_strategy_structures"
    /\ UNCHANGED <<perm, data, disk, clock, appended, cfg, rows, upserted, steps>>

InitStrategy ==
    /\ result \in StrategyInputs
    /\ perm = NoPerm
    /\ data = <<>>
    /\ disk = <<>>
    /\ clock = 0
    /\ appended = <<>>
    /\ cfg = <<>>
    /\ rows = {}
    /\ upserted = {}
    /\ lastOp = "init"
    /\ steps = 0

NextStrategy == GetStrategyStructures

SpecStrategy == InitStrategy /\ [][NextStrategy]_vars

\* C12: the selector never removes a structure: the returned list has every
\* candidate structure of the bundle in the same order; a structure is
\* enabled=false with the disable note appended exactly when its name is in
\* disabled_structures, and enabled=true with its notes unchanged otherwise.
StructuresFlaggedNeverRemoved ==
    result.called =>
        LET cand == result.candidates
            out == result.strategy_structures
            listed == { result.disabled_structures[i] : i \in 1..Len(result.disabled_structures) }
            note == _build_disable_note(result.permission_reasons)
        IN  /\ Len(out) = Len(cand)
            /\ \A i \in 1..Len(cand) :
                  /\ out[i].name = cand[i].name
                  /\ out[i].enabled = (cand[i].name \notin listed)
                  /\ out[i].notes = IF cand[i].name \in listed
                                    THEN Append(cand[i].notes, note)
                                    ELSE cand[i].notes

\* a bundle of two structures of which exactly the second is disabled
StructuresFlaggedNeverRemovedWitness ==
    /\ result.called
    /\ Len(result.strategy_structures) = 2
    /\ result.strategy_structures[1].enabled
    /\ ~result.strategy_structures[2].enabled
    /\ result.strategy_structures[2].name = "iron_condor"
    /\ Len(result.strategy_structures[2].notes) = Len(result.candidates[2].notes) + 1

(***************************************************************************)
(* Confidence label and its data-quality gate (core/confidence.py,         *)
(* core/analyzer.py).  Strengths and thresholds are in hundredths.         *)
(***************************************************************************)
\* compute_confidence_components: the label of final_strength
confidence_label(final_strength, confidence_high_th, confidence_med_th) ==
    LET high_th == Max2(confidence_high_th, confidence_med_th)
        med_th == Min2(confidence_high_th, confidence_med_th)
    IN  IF final_strength >= high_th THEN "HIGH"
        ELSE IF final_strength >= med_th THEN "MED"
        ELSE "LOW"

\* the gate left out: the computed label is reported as it is
quality_gate_off(confidence, data_quality) == confidence

quality_gate(confidence, data_quality) ==
    IF data_quality = "LOW" /\ confidence # "LOW" THEN "LOW"
    ELSE IF data_quality = "MED" /\ confidence = "HIGH" THEN "MED"
    ELSE confidence

ConfidenceRank(label) ==
    IF label = "LOW" THEN 0 ELSE IF label = "MED" THEN 1 ELSE 2

FinalStrengths == { 10 * i : i \in 0..20 }
ConfidenceThresholds == { <<150, 75>>, <<75, 150>>, <<100, 100>> }

ConfidenceInputs ==
    [ called : { FALSE }, final_strength : FinalStrengths,
      thresholds : ConfidenceThresholds, data_quality : DataQualities ]

ConfidenceGate ==
    /\ ~result.called
    /\ \E label \in { confidence_label(result.final_strength, result.thresholds[1], result.thresholds[2]) } :
          result' = [ called |-> TRUE, final_strength |-> result.final_strength,
                      thresholds |-> result.thresholds,
                      data_quality |-> result.data_quality,
                      label |-> label,
                      label_after_quality_gate |-> quality_gate(label, result.data_quality),
                      quality_gate_applied |-> quality_gate(label, result.data_quality) # label ]
    /\ lastOp' = "confidence_gate"
    /\ UNCHANGED <<perm, data, disk, clock, appended, cfg, rows, upserted, steps>>

InitConfidence ==
    /\ result \in ConfidenceInputs
    /\ perm = NoPerm
    /\ data = <<>>
    /\ disk = <<>>
    /\ clock = 0
    /\ appended = <<>>
    /\ cfg = <<>>
    /\ rows = {}
    /\ upserted = {}
    /\ lastOp = "init"
    /\ steps = 0

NextConfidence == ConfidenceGate

SpecConfidence == InitConfidence /\ [][NextConfidence]_vars

\* C13: the data-quality gate only downgrades: under LOW < MED < HIGH the
\* gated label is never above the computed label, it is LOW whenever
\* data_quality is LOW, and it is at most MED whenever data_quality is MED.
QualityGateOnlyDowngrades ==
    result.called =>
        /\ ConfidenceRank(result.label_after_quality_gate) <= ConfidenceRank(result.label)
        /\ result.data_quality = "LOW" => result.label_after_quality_gate = "LOW"
        /\ result.data_quality = "MED" =>
              ConfidenceRank(result.label_after_quality_gate) <= ConfidenceRank("MED")

\* a HIGH label computed on MED-quality data comes out as MED
QualityGateOnlyDowngradesWitness ==
    /\ result.called
    /\ result.data_quality = "MED"
    /\ result.label = "HIGH"
    /\ result.label_after_quality_gate = "MED"
    /\ result.quality_gate_applied

(***************************************************************************)
(* Linear slope of the direction scores (core/trend.py).  A score entry is *)
(* Num(v), Null (None), Bad (an unparsable string) or a bool; a slope is   *)
(* the exact fraction <<numerator, denominator>>.                          *)
(***************************************************************************)
MaxScores == 4

BoolEntry == [ k |-> "bool", v |-> 1 ]

\* None for bool, None and unparsable strings
_to_float(value) == IF value.k = "num" THEN Some(value.v) ELSE None

RECURSIVE ValidScores(_)
ValidScores(scores) ==
    IF scores = <<>> THEN <<>>
    ELSE _to_float(Head(scores)) \o ValidScores(Tail(scores))

\* sum over i of (x_i - mean_x)(y_i - mean_y) and of (x_i - mean_x)^2 with
\* x = 0..k-1, both multiplied by k: the quotient is the OLS slope
OlsSlope(y_values) ==
    LET k == Len(y_values)
        sum_x == SumSeq([ i \in 1..k |-> i - 1 ])
        sum_y == SumSeq(y_values)
        sum_xy == SumSeq([ i \in 1..k |-> (i - 1) * y_values[i] ])
        sum_xx == SumSeq([ i \in 1..k |-> (i - 1) * (i - 1) ])
    IN  IF k * sum_xx - sum_x * sum_x = 0 THEN <<0, 1>>
        ELSE <<k * sum_xy - sum_x * sum_y, k * sum_xx - sum_x * sum_x>>

compute_linear_slope(scores, n_days) ==
    IF scores = <<>> \/ n_days <= 1 THEN <<0, 1>>
    ELSE LET valid_scores == ValidScores(scores)
             k == Min2(n_days, Len(valid_scores))
         IN  IF k <= 1 THEN <<0, 1>>
             ELSE OlsSlope(FirstN(valid_scores, k))

SlopeEq(a, b) == a[1] * b[2] = b[1] * a[2]

ScoreEntries == { Null, Bad, BoolEntry, Num(1), Num(3) }
TrendDays == { 1, 2, 3, 5 }

SlopeInputs ==
    [ called : { FALSE }, scores : SeqsUpTo(ScoreEntries, MaxScores), n_days : TrendDays ]

ComputeLinearSlope ==
    /\ ~result.called
    /\ result' = [ called |-> TRUE, scores |-> result.scores, n_days |-> result.n_days,
                   valid_scores |-> ValidScores(result.scores),
                   slope |-> compute_linear_slope(result.scores, result.n_days) ]
    /\ lastOp' = "compute_linear_slope"
    /\ UNCHANGED <<perm, data, disk, clock, appended, cfg, rows, upserted, steps>>

InitSlope ==
    /\ result \in SlopeInputs
    /\ perm = NoPerm
    /\ data = <<>>
    /\ disk = <<>>
    /\ clock = 0
    /\ appended = <<>>
    /\ cfg = <<>>
    /\ rows = {}
    /\ upserted = {}
    /\ lastOp = "init"
    /\ steps = 0

NextSlope == ComputeLinearSlope

SpecSlope == InitSlope /\ [][NextSlope]_vars

\* C14: compute_linear_slope is the OLS slope of the last
\* k = min(n_days, number of valid points) valid scores against 0..k-1,
\* non-numeric entries being skipped, and it is 0 whenever k <= 1.
SlopeOfLastValidScores ==
    result.called =>
        LET k == Min2(result.n_days, Len(result.valid_scores))
        IN  IF k <= 1 THEN SlopeEq(result.slope, <<0, 1>>)
            ELSE SlopeEq(result.slope, OlsSlope(LastN(result.valid_scores, k)))

(***************************************************************************)
(* 5-day posture (core/posture.py, core/confidence.py).  Scores and        *)
(* thresholds are in tenths; the consistency is the exact fraction         *)
(* sign_sum / count, kept as the record [num, den] with den > 0.           *)
(***************************************************************************)
MaxHistory == 6

Sign(x) == IF x > 0 THEN 1 ELSE IF x < 0 THEN -1 ELSE 0

compute_intertemporal_consistency(history_scores, n_days) ==
    IF history_scores = <<>> THEN [ num |-> 0, den |-> 1 ]
    ELSE LET scores == FirstN(history_scores, n_days)
         IN  IF scores = <<>> THEN [ num |-> 0, den |-> 1 ]
             ELSE [ num |-> SumSeq([ i \in 1..Len(scores) |-> Sign(scores[i]) ]),
                    den |-> Len(scores) ]

_strength_bucket(dir_score, config) ==
    IF Abs(dir_score) >= config.posture_direction_strong_threshold THEN "strong"
    ELSE IF Abs(dir_score) >= config.posture_direction_med_threshold THEN "medium"
    ELSE "weak"

\* max(-1.0, min(1.0, consistency))
ClipUnit(c) ==
    IF c.num > c.den THEN [ num |-> c.den, den |-> c.den ]
    ELSE IF c.num < 0 - c.den THEN [ num |-> 0 - c.den, den |-> c.den ]
    ELSE c

\* |c| >= th and |c| <= th for a threshold in tenths
AbsAtLeast(c, th) == 10 * Abs(c.num) >= th * c.den
AbsAtMost(c, th) == 10 * Abs(c.num) <= th * c.den

\* compute_posture_5d with the one-day-shock test moved to the front
compute_posture_5d_shock_first(dir_score, history_scores, config) ==
    LET consistency_5d == ClipUnit(compute_intertemporal_consistency(history_scores, config.consistency_days))
        today_sign == Sign(dir_score)
        trend_sign == Sign(consistency_5d.num)
        strength_bucket == _strength_bucket(dir_score, config)
        strong == AbsAtLeast(consistency_5d, config.posture_consistency_strong_threshold)
        weak == AbsAtMost(consistency_5d, config.posture_consistency_weak_threshold)
        posture ==
            IF weak /\ strength_bucket = "strong" THEN "ONE_DAY_SHOCK"
            ELSE IF strong /\ today_sign # 0 /\ today_sign = trend_sign THEN "TREND_CONFIRM"
            ELSE IF strong /\ today_sign # 0 /\ trend_sign # 0 /\ today_sign # trend_sign
            THEN "COUNTERTREND"
            ELSE "CHOP"
    IN  [ posture_5d |-> posture,
          posture_reason_codes |-> << "POSTURE_" \o posture >>,
          posture_confidence |-> "MED",
          consistency_5d |-> consistency_5d,
          today_direction_sign |-> today_sign,
          abs_direction_strength_bucket |-> strength_bucket ]

compute_posture_5d(dir_score, history_scores, config) ==
    LET consistency_5d == ClipUnit(compute_intertemporal_consistency(history_scores, config.consistency_days))
        today_sign == Sign(dir_score)
        trend_sign == Sign(consistency_5d.num)
        strength_bucket == _strength_bucket(dir_score, config)
        strong == AbsAtLeast(consistency_5d, config.posture_consistency_strong_threshold)
        weak == AbsAtMost(consistency_5d, config.posture_consistency_weak_threshold)
        posture ==
            IF strong /\ today_sign # 0 /\ today_sign = trend_sign THEN "TREND_CONFIRM"
            ELSE IF strong /\ today_sign # 0 /\ trend_sign # 0 /\ today_sign # trend_sign
            THEN "COUNTERTREND"
            ELSE IF weak /\ strength_bucket = "strong" THEN "ONE_DAY_SHOCK"
            ELSE "CHOP"
    IN  [ posture_5d |-> posture,
          posture_reason_codes |-> << "POSTURE_" \o posture >>,
          posture_confidence |->
              IF posture \in { "TREND_CONFIRM", "COUNTERTREND" } /\ strong /\ strength_bucket # "weak"
              THEN "HIGH"
              ELSE IF posture = "CHOP" /\ strength_bucket = "weak" /\ weak THEN "LOW"
              ELSE "MED",
          consistency_5d |-> consistency_5d,
          today_direction_sign |-> today_sign,
          abs_direction_strength_bucket |-> strength_bucket ]

\* the default thresholds, and a configuration whose weak threshold lies
\* above its strong threshold
DefaultPostureCfg ==
    [ consistency_days |-> 5,
      posture_consistency_strong_threshold |-> 6, posture_consistency_weak_threshold |-> 2,
      posture_direction_strong_threshold |-> 10, posture_direction_med_threshold |-> 6 ]
OverlapPostureCfg ==
    [ consistency_days |-> 5,
      posture_consistency_strong_threshold |-> 2, posture_consistency_weak_threshold |-> 6,
      posture_direction_strong_threshold |-> 10, posture_direction_med_threshold |-> 6 ]

RisingHistory == <<10, 11, 12, 13, 14>>
HistoryScores == SeqsUpTo({ -10, 0, 12 }, MaxHistory) \cup { RisingHistory }
DirScores == { -15, -7, 0, 7, 15 }

PostureInputs ==
    [ called : { FALSE }, dir_score : DirScores, history_scores : HistoryScores,
      config : { DefaultPostureCfg, OverlapPostureCfg } ]

ComputePosture5d ==
    /\ ~result.called
    /\ result' = [ called |-> TRUE, dir_score |-> result.dir_score,
                   history_scores |-> result.history_scores, config |-> result.config,
                   posture_info |-> compute_posture_5d(result.dir_score, result.history_scores, result.config) ]
    /\ lastOp' = "compute_posture_5d"
    /\ UNCHANGED <<perm, data, disk, clock, appended, cfg, rows, upserted, steps>>

InitPosture ==
    /\ result \in PostureInputs
    /\ perm = NoPerm
    /\ data = <<>>
    /\ disk = <<>>
    /\ clock = 0
    /\ appended = <<>>
    /\ cfg = <<>>
    /\ rows = {}
    /\ upserted = {}
    /\ lastOp = "init"
    /\ steps = 0

NextPosture == ComputePosture5d

SpecPosture == InitPosture /\ [][NextPosture]_vars

\* what the claim's conditions say of one call: the consistency reported in
\* the snapshot is strong or weak against the thresholds, today's sign
\* matches the trend sign (the same non-zero sign) or disagrees with it
\* (opposite non-zero signs)
PostureStrong == AbsAtLeast(result.posture_info.consistency_5d, result.config.posture_consistency_strong_threshold)
PostureWeak == AbsAtMost(result.posture_info.consistency_5d, result.config.posture_consistency_weak_threshold)
PostureSignsMatch == Sign(result.dir_score) # 0 /\ Sign(result.dir_score) = Sign(result.posture_info.consistency_5d.num)
PostureSignsDisagree == Sign(result.dir_score) * Sign(result.posture_info.consistency_5d.num) = -1

\* C15: compute_posture_5d classifies, first match wins: TREND_CONFIRM if
\* |consistency| >= strong threshold and today's sign matches the trend
\* sign; COUNTERTREND if |consistency| >= strong threshold and the signs
\* disagree; ONE_DAY_SHOCK if |consistency| <= weak threshold and today's
\* bucket is strong; otherwise CHOP.  History [1.0,1.1,1.2,1.3,1.4] with
\* today's score 1.5 is TREND_CONFIRM under the default thresholds.
PostureFirstMatchWins ==
    result.called =>
        /\ result.posture_info.posture_5d =
              IF PostureStrong /\ PostureSignsMatch THEN "TREND_CONFIRM"
              ELSE IF PostureStrong /\ PostureSignsDisagree THEN "COUNTERTREND"
              ELSE IF PostureWeak /\ Abs(result.dir_score) >= result.config.posture_direction_strong_threshold
              THEN "ONE_DAY_SHOCK"
              ELSE "CHOP"
        /\ (/\ result.history_scores = RisingHistory
            /\ result.dir_score = 15
            /\ result.config = DefaultPostureCfg)
              => result.posture_info.posture_5d = "TREND_CONFIRM"

\* a call in which the trend-confirm and the one-day-shock conditions both
\* hold, and the earlier one wins
PostureFirstMatchWinsWitness ==
    /\ result.called
    /\ PostureStrong /\ PostureSignsMatch
    /\ PostureWeak /\ result.posture_info.abs_direction_strength_bucket = "strong"
    /\ result.posture_info.posture_5d = "TREND_CONFIRM"

(***************************************************************************)
(* Term-structure label of the bridge snapshot (bridge/builders.py).       *)
(* Ratios are in thousandths; a missing ratio is None.                     *)
(***************************************************************************)
\* the label text is kept by its English part
_classify_term_structure(ratios) ==
    IF IsNone(ratios.short) \/ IsNone(ratios.mid) \/ IsNone(ratios.long) THEN "N/A"
    ELSE LET short == Val(ratios.short)
             mid == Val(ratios.mid)
             long == Val(ratios.long)
         IN  IF short > 1050 /\ mid > 1050 /\ long > 1050 THEN "Full inversion"
             ELSE IF short > 1050 /\ mid <= 1000 THEN "Short-term inversion"
             ELSE IF mid > 1050 /\ short <= 1020 /\ long <= 1000 THEN "Mid-term bulge"
             ELSE IF long > 1050 /\ mid <= 1000 THEN "Far-term elevated"
             ELSE IF short < 900 /\ mid >= 950 THEN "Short-term low"
             ELSE IF short < 1000 /\ mid < 1000 /\ long < 1000 THEN "Normal steep"
             ELSE "Normal steep"

_state_flags(label) ==
    [ full_inversion |-> label = "Full inversion",
      short_inversion |-> label = "Short-term inversion",
      mid_bulge |-> label = "Mid-term bulge",
      far_elevated |-> label = "Far-term elevated",
      short_low |-> label = "Short-term low",
      normal_steep |-> label = "Normal steep" ]

_derive_label_code(flags) ==
    IF flags.full_inversion THEN "full_inversion"
    ELSE IF flags.short_inversion THEN "short_inversion"
    ELSE IF flags.mid_bulge THEN "mid_bulge"
    ELSE IF flags.far_elevated THEN "far_elevated"
    ELSE IF flags.short_low THEN "short_low"
    ELSE IF flags.normal_steep THEN "normal_steep"
    ELSE "unknown"

\* the shared classifier of core/term_structure.py, stated from section 4.5
\* of the specification: its order and its conditions
classify_term_structure_label(ratios, inv_th, flat_tol) ==
    LET short == Val(ratios.short)
        mid == Val(ratios.mid)
        long == Val(ratios.long)
    IN  IF short >= inv_th /\ mid >= inv_th /\ long >= 1000 THEN "full_inversion"
        ELSE IF short >= inv_th THEN "short_inversion"
        ELSE IF mid >= inv_th /\ short <= 1020 /\ long <= 1020 THEN "mid_bulge"
        ELSE IF long <= 950 /\ short <= 1020 /\ mid <= 1020 THEN "far_elevated"
        ELSE IF short <= 900 /\ mid >= 950 THEN "short_low"
        ELSE IF \A r \in { short, mid, long } : Abs(r - 1000) <= flat_tol THEN "flat"
        ELSE IF short < 1000 /\ mid < 1000 /\ long < 1000 THEN "normal_steep"
        ELSE "flat"

TermRatios == { None, Some(850), Some(950), Some(980), Some(1000), Some(1020), Some(1060), Some(1100) }

TermInputs == [ called : { FALSE }, ratios : [ short : TermRatios, mid : TermRatios, long : TermRatios ] ]

BuildTermStructureSnapshot ==
    /\ ~result.called
    /\ \E label \in { _classify_term_structure(result.ratios) } :
          result' = [ called |-> TRUE, ratios |-> result.ratios, label |-> label,
                      state_flags |-> _state_flags(label),
                      label_code |-> _derive_label_code(_state_flags(label)) ]
    /\ lastOp' = "build_term_structure_snapshot"
    /\ UNCHANGED <<perm, data, disk, clock, appended, cfg, rows, upserted, steps>>

InitTerm ==
    /\ result \in TermInputs
    /\ perm = NoPerm
    /\ data = <<>>
    /\ disk = <<>>
    /\ clock = 0
    /\ appended = <<>>
    /\ cfg = <<>>
    /\ rows = {}
    /\ upserted = {}
    /\ lastOp = "init"
    /\ steps = 0

NextTerm == BuildTermStructureSnapshot

SpecTerm == InitTerm /\ [][NextTerm]_vars

\* C16: the term-structure label is the first match in the order
\* full_inversion, short_inversion, mid_bulge, far_elevated, short_low, flat,
\* normal_steep, flat (fallback), with inversion threshold 1.05 and flat
\* tolerance 0.025; the ratios 7_30 = 1.10, 30_60 = 1.02, 60_90 = 0.98 are
\* labelled short_inversion.
TermLabelFirstMatch ==
    (/\ result.called
     /\ IsNum(result.ratios.short) /\ IsNum(result.ratios.mid) /\ IsNum(result.ratios.long))
        => /\ result.label_code = classify_term_structure_label(result.ratios, 1050, 25)
           /\ result.ratios = [ short |-> Some(1100), mid |-> Some(1020), long |-> Some(980) ]
                 => result.label_code = "short_inversion"

(***************************************************************************)
(* compute_z_score over IEEE values (core/dynamic_params.py).  A float is  *)
(* Num(v) with v in tenths, or one of NaN, PosInf, NegInf.                 *)
(***************************************************************************)
NaN == [ k |-> "nan", v |-> 0 ]
PosInf == [ k |-> "inf", v |-> 0 ]
NegInf == [ k |-> "ninf", v |-> 0 ]

IsFinite(x) == x.k = "num"

\* a < b on floats: false as soon as one side is NaN
FloatLess(a, b) ==
    /\ a.k # "nan" /\ b.k # "nan"
    /\ \/ a.k = "ninf" /\ b.k # "ninf"
       \/ b.k = "inf" /\ a.k # "inf"
       \/ a.k = "num" /\ b.k = "num" /\ a.v < b.v

\* Python's min(a, b) and max(a, b): the first argument unless the second
\* is strictly smaller (larger)
PyMin(a, b) == IF FloatLess(b, a) THEN b ELSE a
PyMax(a, b) == IF FloatLess(a, b) THEN b ELSE a

\* the clip written with the value first: max(min(z, 3.0), -3.0)
clip_z_value_first(z) == PyMax(PyMin(z, Num(30)), Num(-30))

\* z = max(-3.0, min(3.0, z))
clip_z(z) == PyMax(Num(-30), PyMin(Num(30), z))

AllFinite(values) == \A i \in 1..Len(values) : IsFinite(values[i])

\* (current_value - mean) / std before the clip, when a non-finite value
\* takes part: a non-finite history makes std NaN, a NaN value gives NaN,
\* an infinite value keeps its sign
raw_z_nonfinite(current_value, historical_values) ==
    IF ~AllFinite(historical_values) \/ current_value.k = "nan" THEN NaN
    ELSE current_value

\* compute_z_score on floats: compute_z_score on the finite inputs
compute_z_score_float(current_value, historical_values) ==
    IF Len(historical_values) < min_samples THEN Num(0)
    ELSE IF AllFinite(historical_values)
            /\ \A i \in 1..Len(historical_values) : historical_values[i].v = historical_values[1].v
    THEN Num(0)
    ELSE IF AllFinite(historical_values) /\ IsFinite(current_value)
    THEN clip_z(Num(compute_z_score(current_value.v, [ i \in 1..Len(historical_values) |-> historical_values[i].v ])))
    ELSE clip_z(raw_z_nonfinite(current_value, historical_values))

\* histories: constant, rising, and rising with one non-finite sample
ZHistoryLengths == { 0, 3, min_samples - 1, min_samples, min_samples + 2 }
ZHistories ==
    UNION { { [ i \in 1..n |-> Num(20) ],
              [ i \in 1..n |-> Num(20 + i) ],
              [ i \in 1..n |-> IF i = 2 THEN NaN ELSE Num(20 + i) ],
              [ i \in 1..n |-> IF i = n THEN PosInf ELSE Num(20 + i) ],
              [ i \in 1..n |-> IF i = 1 THEN NegInf ELSE Num(20) ] } : n \in ZHistoryLengths }
ZCurrentValues == { Num(-20), Num(25), Num(28), Num(60), NaN, PosInf, NegInf }

ZInputs == [ called : { FALSE }, current_value : ZCurrentValues, historical_values : ZHistories ]

ComputeZScore ==
    /\ ~result.called
    /\ result' = [ called |-> TRUE, current_value |-> result.current_value,
                   historical_values |-> result.historical_values,
                   z |-> compute_z_score_float(result.current_value, result.historical_values) ]
    /\ lastOp' = "compute_z_score"
    /\ UNCHANGED <<perm, data, disk, clock, appended, cfg, rows, upserted, steps>>

InitZ ==
    /\ result \in ZInputs
    /\ perm = NoPerm
    /\ data = <<>>
    /\ disk = <<>>
    /\ clock = 0
    /\ appended = <<>>
    /\ cfg = <<>>
    /\ rows = {}
    /\ upserted = {}
    /\ lastOp = "init"
    /\ steps = 0

NextZ == ComputeZScore

SpecZ == InitZ /\ [][NextZ]_vars

\* C17: compute_z_score returns exactly 0 when the history has fewer than
\* min_samples points or its standard deviation is zero, otherwise a value
\* within [-3, 3]; it never returns NaN or an infinity.
ZScoreZeroOrClipped ==
    result.called =>
        /\ IsFinite(result.z)
        /\ result.z.v >= -30 /\ result.z.v <= 30
        /\ (\/ Len(result.historical_values) < min_samples
            \/ /\ AllFinite(result.historical_values)
               /\ \A i \in 1..Len(result.historical_values) :
                     result.historical_values[i] = result.historical_values[1])
              => result.z = Num(0)

\* a NaN value against a full, varying, finite history: the result is 3.0
ZScoreZeroOrClippedWitness ==
    /\ result.called
    /\ result.current_value = NaN
    /\ Len(result.historical_values) >= min_samples
    /\ AllFinite(result.historical_values)
    /\ result.historical_values[1] # result.historical_values[2]
    /\ result.z = Num(30)

(***************************************************************************)
(* The guard's first pass: which inputs reach the fear-regime check and    *)
(* the short-vol checks (checked under SpecGuard)                          *)
(***************************************************************************)
\* is_short_vol as evaluate_trade_permission computes it from its arguments
PermIsShortVol == QuadrantHasShortVol(perm.quadrant) \/ perm.vol_pref = "SHORT_VOL"

\* the reason codes of pass one, as a set
PassOneReasons == { perm.pass_one.permission_reasons[i] : i \in 1..Len(perm.pass_one.permission_reasons) }

\* the last Len(fear_reasons) reasons of pass one are the fear codes, in order
FearCodesAppended ==
    LET reasons == perm.pass_one.permission_reasons
        n == Len(perm.fear_reasons)
    IN  /\ Len(reasons) >= n
        /\ \A i \in 1..n : reasons[Len(reasons) - n + i] = FearRegimeCode(perm.fear_reasons[i])

\* C18 as stated: with data_quality not LOW and a fear reason, pass one is
\* at least ALLOW_DEFINED_RISK_ONLY with one code per fear reason, for every
\* quadrant, short-vol or not.
FearCheckOnEveryQuadrant ==
    (perm.evaluated /\ perm.data_quality # "LOW" /\ perm.fear_reasons # <<>>) =>
        /\ severity_map(perm.pass_one.trade_permission) >= severity_map("ALLOW_DEFINED_RISK_ONLY")
        /\ FearCodesAppended

\* C18 amended: with data_quality not LOW and a fear reason, pass one is at
\* least ALLOW_DEFINED_RISK_ONLY with one code per fear reason when the
\* evaluation is short-vol; otherwise the fear check does not run and no
\* fear code is appended.
FearCheckOnShortVolOnly ==
    (perm.evaluated /\ perm.data_quality # "LOW" /\ perm.fear_reasons # <<>>) =>
        IF PermIsShortVol
        THEN /\ severity_map(perm.pass_one.trade_permission) >= severity_map("ALLOW_DEFINED_RISK_ONLY")
             /\ FearCodesAppended
             /\ base_disabled \subseteq perm.pass_one.disabled_structures
        ELSE /\ perm.pass_one.trade_permission = "NORMAL"
             /\ \A i \in 1..Len(perm.fear_reasons) : FearRegimeCode(perm.fear_reasons[i]) \notin PassOneReasons

\* a short-vol quadrant on good data whose only escalation is two fear reasons
FearCheckOnShortVolOnlyWitness ==
    /\ perm.evaluated
    /\ perm.quadrant = <<"BULL", "SHORT_VOL">>
    /\ perm.data_quality = "HIGH"
    /\ perm.fear_reasons = <<"FEAR_SELL_PRESSURE", "HIGH_VIX_ENV">>
    /\ perm.pass_one.trade_permission = "ALLOW_DEFINED_RISK_ONLY"
    /\ perm.pass_one.permission_reasons = <<"FEAR_REGIME_FEAR_SELL_PRESSURE", "FEAR_REGIME_HIGH_VIX_ENV">>

\* which of the three short-vol checks left its code in pass one
ShortVolChecksRan ==
    /\ ("DATA_QUALITY_MED" \in PassOneReasons) = (perm.data_quality = "MED")
    /\ ("EARNINGS_WINDOW_SHORT_VOL" \in PassOneReasons)
          = (IsNum(perm.days_to_earnings) /\ Val(perm.days_to_earnings) >= 0 /\ Val(perm.days_to_earnings) <= 7)
    /\ ("LOW_CONFIDENCE_SHORT_VOL" \in PassOneReasons) = (perm.confidence = "LOW")

PassOneUntouched ==
    /\ perm.pass_one.trade_permission = "NORMAL"
    /\ perm.pass_one.permission_reasons = <<>>
    /\ perm.pass_one.disabled_structures = {}

\* C19 as stated: with data_quality not LOW the short-vol checks run exactly
\* when the quadrant contains the short-vol label; for every other quadrant
\* pass one stays NORMAL with no reasons and no disabled structures.
ShortVolChecksByQuadrant ==
    (perm.evaluated /\ perm.data_quality # "LOW") =>
        IF QuadrantHasShortVol(perm.quadrant) THEN ShortVolChecksRan ELSE PassOneUntouched

\* C19 amended: with data_quality not LOW the short-vol checks run exactly
\* when the quadrant contains the short-vol label or vol_pref is short-vol
\* (a neutral direction with a short-vol preference gives the neutral
\* quadrant and still runs them); for every other input pass one stays
\* NORMAL with no reasons and no disabled structures.
ShortVolChecksByQuadrantOrVolPref ==
    (perm.evaluated /\ perm.data_quality # "LOW") =>
        IF PermIsShortVol THEN ShortVolChecksRan ELSE PassOneUntouched

\* the neutral quadrant with a short-vol preference and low confidence
ShortVolChecksByQuadrantOrVolPrefWitness ==
    /\ perm.evaluated
    /\ perm.quadrant = <<"NEUTRAL", "WATCH">>
    /\ perm.vol_pref = "SHORT_VOL"
    /\ perm.data_quality = "HIGH"
    /\ perm.confidence = "LOW"
    /\ perm.pass_one.trade_permission = "ALLOW_DEFINED_RISK_ONLY"
    /\ "LOW_CONFIDENCE_SHORT_VOL" \in PassOneReasons

(***************************************************************************)
(* The permission and the structured strategy list of one result           *)
(* (core/analyzer.py): the three permission stages, then the selector on   *)
(* the reported disabled structures, then the DTE-bias note.               *)
(***************************************************************************)
\* _QUADRANT_FALLBACK_ALIAS
_quadrant_to_key(quadrant) ==
    IF quadrant = <<"BULL", "LONG_VOL">> THEN "bull_long_vol"
    ELSE IF quadrant = <<"BULL", "SHORT_VOL">> THEN "bull_short_vol"
    ELSE IF quadrant = <<"BEAR", "LONG_VOL">> THEN "bear_long_vol"
    ELSE IF quadrant = <<"BEAR", "SHORT_VOL">> THEN "bear_short_vol"
    ELSE "neutral_watch"

\* list(disabled): the members of the set in some order
RECURSIVE ListOf(_)
ListOf(S) ==
    IF S = {} THEN <<>>
    ELSE LET x == CHOOSE y \in S : TRUE IN <<x>> \o ListOf(S \ { x })

\* dte_bias of select_micro_template, from the term profile's dte_bias
micro_dte_bias(posture, term_dte_bias) ==
    IF posture = "CHOP" THEN "wait_and_see"
    ELSE IF term_dte_bias # "neutral" THEN term_dte_bias
    ELSE IF posture = "TREND_CONFIRM" THEN "mid_term_30_60d"
    ELSE "short_term_0_30d"

\* the strategy_structures of the result
result_strategy_structures(stages, raw_structures, term_dte_bias) ==
    LET structures ==
            get_strategy_structures(
                [ _quadrant_key |-> _quadrant_to_key(stages.quadrant), structures |-> raw_structures ],
                ListOf(stages.reported.disabled_structures),
                stages.reported.permission_reasons)
        dte_bias == micro_dte_bias(stages.posture_5d, term_dte_bias)
    IN  [ i \in 1..Len(structures) |->
            [ structures[i] EXCEPT !.notes =
                IF dte_bias # "neutral" THEN Append(@, <<"DTE_BIAS", dte_bias>>) ELSE @ ] ]

ResultRawStructures ==
    [ name : { "naked_short_put", "short_strangle", "bull_call_spread" },
      risk_defined : { TRUE }, description_zh : { <<>> }, notes : { <<>> } ]

ResultPermissionInputs ==
    { PermissionInput(d, v, "HIGH", None, q, <<>>, p) :
        d \in { "BULL", "NEUTRAL" }, v \in VolPrefs, q \in DataQualities, p \in Postures }

ResultInputs ==
    [ called : { FALSE }, structures : SeqsUpTo(ResultRawStructures, MaxStructures),
      term_dte_bias : { "neutral", "long_term_60_90d" } ]

BuildResultStructures ==
    /\ ~result.called
    /\ ~perm.evaluated
    /\ \E stages \in { permission_stages(perm) } :
          /\ perm' = stages
          /\ result' = [ called |-> TRUE, structures |-> result.structures,
                         term_dte_bias |-> result.term_dte_bias,
                         trade_permission |-> stages.reported.trade_permission,
                         strategy_structures |->
                             result_strategy_structures(stages, result.structures, result.term_dte_bias) ]
    /\ lastOp' = "calculate_analysis"
    /\ UNCHANGED <<data, disk, clock, appended, cfg, rows, upserted, steps>>

InitResult ==
    /\ perm \in ResultPermissionInputs
    /\ result \in ResultInputs
    /\ data = <<>>
    /\ disk = <<>>
    /\ clock = 0
    /\ appended = <<>>
    /\ cfg = <<>>
    /\ rows = {}
    /\ upserted = {}
    /\ lastOp = "init"
    /\ steps = 0

NextResult == BuildResultStructures

SpecResult == InitResult /\ [][NextResult]_vars

\* C20: when posture_5d is CHOP the posture overlay sets trade_permission
\* to NO_TRADE and no structure of the result's strategy_structures remains
\* enabled.
ChopDisablesEveryStructure ==
    (result.called /\ perm.posture_5d = "CHOP") =>
        /\ perm.overlay.trade_permission = "NO_TRADE"
        /\ result.trade_permission = "NO_TRADE"
        /\ \A i \in 1..Len(result.strategy_structures) : ~result.strategy_structures[i].enabled

StepIsFlag(before, after, target, code) ==
    \/ after = flag(before, target, code, FALSE)
    \/ after = flag(before, target, code, TRUE)

\* C22: every elevate step of either pass sets the permission to the more
\* severe of the current state and the target, appends its reason code and,
\* for a target of ALLOW_DEFINED_RISK_ONLY or NO_TRADE, unions the fixed
\* disabled set into disabled_structures (the three naked/strangle names,
\* plus the two ratio spreads for NO_TRADE or hard escalations); no step
\* removes an earlier reason code or disabled structure.
EveryElevateStepFollowsFlag ==
    perm.evaluated =>
        /\ perm.posture_5d = "COUNTERTREND" =>
              /\ StepIsFlag(perm.pass_one, perm.overlay, "ALLOW_DEFINED_RISK_ONLY", "POSTURE_COUNTERTREND")
              /\ StepIsFlag(perm.overlay, perm.reported, "ALLOW_DEFINED_RISK_ONLY", "POSTURE_COUNTERTREND_OVERLAY")
        /\ perm.posture_5d = "ONE_DAY_SHOCK" =>
              /\ StepIsFlag(perm.pass_one, perm.overlay, "ALLOW_DEFINED_RISK_ONLY", "POSTURE_ONE_DAY_SHOCK")
              /\ StepIsFlag(perm.overlay, perm.reported, "ALLOW_DEFINED_RISK_ONLY", "POSTURE_ONE_DAY_SHOCK_OVERLAY")
        /\ perm.posture_5d = "CHOP" =>
              /\ StepIsFlag(perm.pass_one, perm.overlay, "NO_TRADE", "POSTURE_CHOP")
              /\ StepIsFlag(perm.overlay, perm.reported, "NO_TRADE", "POSTURE_CHOP_OVERLAY")
        /\ perm.pass_one.disabled_structures \subseteq perm.overlay.disabled_structures
        /\ perm.overlay.disabled_structures \subseteq perm.reported.disabled_structures
        /\ SubSeq(perm.overlay.permission_reasons, 1, Len(perm.pass_one.permission_reasons)) = perm.pass_one.permission_reasons
        /\ SubSeq(perm.reported.permission_reasons, 1, Len(perm.overlay.permission_reasons)) = perm.overlay.permission_reasons

(***************************************************************************)
(* Concurrent writers of rolling_cache.json (core/rolling_cache.py)        *)
(*                                                                         *)
(* Each writer is a process with its own RollingCache: the constructor     *)
(* reads the file once, every update changes the writer's memory and       *)
(* save_cache rewrites the whole file from that memory.  open(.., 'w')     *)
(* empties the file before json.dump fills it; a file that is absent or    *)
(* half written reads as the empty cache.  The file is <<>> while it is    *)
(* absent or half written and <<contents>> otherwise.                      *)
(***************************************************************************)
MaxWrites == 2

Writers == { "w1", "w2" }
WriterSymbols == { "AAPL", "MSFT" }
WriterSymbol(w) == IF w = "w1" THEN "AAPL" ELSE "MSFT"

\* the empty cache, read with the symbols the writers score
EmptyCacheOf(symbols) ==
    [ symbols |-> [ y \in symbols |-> EmptySeries ],
      vix     |-> [ values |-> <<>>, timestamps |-> <<>> ],
      params  |-> [ k \in symbols \cup {"_global"} |-> NoParams ],
      meta    |-> [ last_update |-> None ] ]

\* _load_cache that ignores the file
_load_cache_fresh(file) == EmptyCacheOf(WriterSymbols)

\* _load_cache: the file's contents, or the empty cache when the file is
\* absent or does not parse
_load_cache(file) ==
    IF file = <<>> THEN EmptyCacheOf(WriterSymbols) ELSE file[1]

\* the records the writers score
WriterRecords(w) ==
    { [ CacheView(BaseRecord) EXCEPT !.symbol = WriterSymbol(w), !.RelVolTo90D = v ] :
          v \in { None, Some(13) } }

WriterParams ==
    [ beta_t |-> DefaultCfg.beta_base, lambda_t |-> DefaultCfg.lambda_base,
      alpha_t |-> DefaultCfg.alpha_base ]

\* a file left by an earlier run that scored the first symbol once
EarlierRun ==
    update_cache_with_record(EmptyCacheOf(WriterSymbols), <<>>, CacheView(BaseRecord), 18, WriterParams, 0)

WriterFiles ==
    { [ file |-> <<>>, log |-> [ y \in WriterSymbols |-> EmptySeries ] ],
      [ file |-> <<EarlierRun.disk>>,
        log |-> Log([ y \in WriterSymbols |-> EmptySeries ], "AAPL", Some(SampleOf(CacheView(BaseRecord), 0))) ] }

\* RollingCache(cache_file): the writer's memory is what the file holds now
WriterConstruct(w) ==
    /\ w \in result.active
    /\ result.pc[w] = "start"
    /\ data' = [ data EXCEPT ![w] = _load_cache(disk) ]
    /\ result' = [ result EXCEPT !.pc[w] = "ready" ]
    /\ lastOp' = "RollingCache"
    /\ UNCHANGED <<perm, disk, clock, appended, cfg, rows, upserted, steps>>

\* update_cache_with_record up to the open(.., 'w') of save_cache: the
\* writer's memory holds the update and the file is empty
WriterUpdate(w) ==
    /\ w \in result.active
    /\ result.pc[w] = "ready"
    /\ result.writes[w] < MaxWrites
    /\ \E record \in WriterRecords(w), vix_value \in { 18 } :
         LET r == update_cache_with_record(data[w], disk, record, vix_value, WriterParams, clock)
         IN  /\ data' = [ data EXCEPT ![w] = r.data ]
             /\ appended' = Log(appended, record.symbol, Some(SampleOf(record, clock)))
    /\ disk' = <<>>
    /\ result' = [ result EXCEPT !.pc[w] = "dumping" ]
    /\ lastOp' = "open"
    /\ UNCHANGED <<perm, clock, cfg, rows, upserted, steps>>

\* json.dump of save_cache: the file holds the writer's memory
WriterDump(w) ==
    /\ w \in result.active
    /\ result.pc[w] = "dumping"
    /\ disk' = << save_cache(data[w]) >>
    /\ result' = [ result EXCEPT !.pc[w] = "ready", !.writes[w] = @ + 1 ]
    /\ lastOp' = "update_cache_with_record"
    /\ UNCHANGED <<perm, data, clock, appended, cfg, rows, upserted, steps>>

InitWriters ==
    /\ perm = NoPerm
    /\ cfg = DefaultCfg
    /\ data = [ w \in Writers |-> EmptyCacheOf(WriterSymbols) ]
    /\ \E f \in WriterFiles :
         /\ disk = f.file
         /\ appended = f.log
    /\ clock = 0
    /\ \E active \in { {"w1"}, {"w2"}, Writers } :
         result = [ active |-> active,
                    pc |-> [ w \in Writers |-> "start" ],
                    writes |-> [ w \in Writers |-> 0 ] ]
    /\ rows = {}
    /\ upserted = {}
    /\ lastOp = "init"
    /\ steps = 0

NextWriters ==
    \/ \E w \in Writers : WriterConstruct(w)
    \/ \E w \in Writers : WriterUpdate(w)
    \/ \E w \in Writers : WriterDump(w)

SpecWriters == InitWriters /\ [][NextWriters]_vars

\* no writer is between the open and the json.dump of save_cache
NoWriterDumping == \A w \in result.active : result.pc[w] # "dumping"

\* the file holds every sample of every update made so far
FileHoldsEveryUpdate ==
    /\ disk # <<>>
    /\ \A y \in WriterSymbols : disk[1].symbols[y] = appended[y]

\* C23: with a single writer no update of the rolling cache is ever lost:
\* whenever the writer is not in the middle of a save, the file is as the
\* updates made so far (and the file's earlier contents) require; only with
\* two writers can the file miss an update after all saves have finished
SingleWriterLosesNoUpdate ==
    (Cardinality(result.active) = 1 /\ NoWriterDumping /\ (\E w \in result.active : result.writes[w] > 0 \/ disk # <<>>))
        => FileHoldsEveryUpdate

\* two writers scoring different symbols have both finished their updates
\* and the file misses a sample one of them saved
SingleWriterLosesNoUpdateWitness ==
    /\ result.active = Writers
    /\ \A w \in Writers : result.pc[w] = "ready" /\ result.writes[w] = MaxWrites
    /\ disk # <<>>
    /\ \E y \in WriterSymbols : Len(disk[1].symbols[y].timestamps) < Len(appended[y].timestamps)

(***************************************************************************)
(* Open-interest cache under the worker threads of batch_fetch_oi          *)
(* (core/oi_fetcher.py)                                                    *)
(*                                                                         *)
(* oi_cache.json maps a symbol to its open interest by calendar day.       *)
(* load_oi_cache and save_oi_cache each run wholly under CACHE_LOCK, so    *)
(* each is one step; the lock is free between the two.  A worker is at     *)
(* "fetch", "load", "save" or "done".                                      *)
(***************************************************************************)
OiSymbols == { "AAPL", "MSFT", "NVDA" }

\* datetime.now().strftime('%Y-%m-%d'), as a day number
OiToday(now) == now \div TicksPerDay

\* what fetch_total_oi can return: a positive total or None
OiTotals == { None, Some(100), Some(120) }

\* the most recent open interest of the last 7 days before today, if any
yesterday_oi(symbol_cache, today) ==
    LET past == { d \in DOMAIN symbol_cache : d < today /\ d >= today - 7 }
    IN  IF past = {} THEN None
        ELSE Some(symbol_cache[CHOOSE d \in past : \A e \in past : e <= d])

\* cache.get(symbol, {})
OiSymbolCache(cache, symbol) ==
    IF symbol \in DOMAIN cache THEN cache[symbol] ELSE << >>

\* the worker's copy of the cache with today's entry of its symbol set and
\* its symbol's entries older than 7 days dropped
oi_cache_with_today(cache, symbol, today, current_oi) ==
    LET old == OiSymbolCache(cache, symbol)
        kept == { d \in DOMAIN old \cup { today } : d >= today - 7 }
        new == [ d \in kept |-> IF d = today THEN current_oi ELSE old[d] ]
    IN  [ y \in DOMAIN cache \cup { symbol } |-> IF y = symbol THEN new ELSE cache[y] ]

\* load_oi_cache: the file's contents
load_oi_cache(file) == file

\* save_oi_cache: whole-file rewrite
save_oi_cache(cache) == cache

\* the files a batch can find: none, and one with a recent and a stale
\* entry of the first symbol
OiCacheFiles(today) ==
    { << >>, [ y \in { "AAPL" } |-> [ d \in { today - 1, today - 9 } |-> 90 ] ] }

\* fetch_total_oi returns; on None get_oi_with_delta returns (None, None)
OiFetch(w) ==
    /\ w \in result.symbols
    /\ result.pc[w] = "fetch"
    /\ \E current_oi \in OiTotals :
         result' = [ result EXCEPT
                       !.current_oi[w] = current_oi,
                       !.pc[w] = IF IsNone(current_oi) THEN "done" ELSE "load" ]
    /\ lastOp' = "fetch_total_oi"
    /\ UNCHANGED <<perm, data, disk, clock, appended, cfg, rows, upserted, steps>>

\* cache = load_oi_cache(); the delta against the most recent earlier day
OiLoad(w) ==
    /\ w \in result.symbols
    /\ result.pc[w] = "load"
    /\ data' = [ data EXCEPT ![w] = load_oi_cache(disk) ]
    /\ LET prev == yesterday_oi(OiSymbolCache(load_oi_cache(disk), w), OiToday(clock))
       IN  result' = [ result EXCEPT
                         !.delta_oi[w] = IF IsNone(prev) THEN None
                                         ELSE Some(Val(result.current_oi[w]) - Val(prev)),
                         !.pc[w] = "save" ]
    /\ lastOp' = "load_oi_cache"
    /\ UNCHANGED <<perm, disk, clock, appended, cfg, rows, upserted, steps>>

\* cache[symbol][today] = current_oi; cleanup; save_oi_cache(cache)
OiSave(w) ==
    /\ w \in result.symbols
    /\ result.pc[w] = "save"
    /\ \E cache \in { oi_cache_with_today(data[w], w, OiToday(clock), Val(result.current_oi[w])) } :
         /\ data' = [ data EXCEPT ![w] = cache ]
         /\ disk' = save_oi_cache(cache)
    /\ result' = [ result EXCEPT !.pc[w] = "done" ]
    /\ lastOp' = "save_oi_cache"
    /\ UNCHANGED <<perm, clock, appended, cfg, rows, upserted, steps>>

\* the main thread takes a finished future: results[symbol] = (oi, delta)
OiCollect(w) ==
    /\ w \in result.symbols
    /\ result.pc[w] = "done"
    /\ w \notin result.results
    /\ result' = [ result EXCEPT !.results = @ \cup { w } ]
    /\ lastOp' = "as_completed"
    /\ UNCHANGED <<perm, data, disk, clock, appended, cfg, rows, upserted, steps>>

InitOi ==
    /\ perm = NoPerm
    /\ cfg = DefaultCfg
    /\ data = [ w \in OiSymbols |-> << >> ]
    /\ clock = StartClock
    /\ disk \in OiCacheFiles(OiToday(clock))
    /\ \E symbols \in SUBSET OiSymbols :
         /\ symbols # {}
         /\ result = [ symbols |-> symbols,
                       pc |-> [ w \in OiSymbols |-> "fetch" ],
                       current_oi |-> [ w \in OiSymbols |-> None ],
                       delta_oi |-> [ w \in OiSymbols |-> None ],
                       results |-> {} ]
    /\ appended = <<>>
    /\ rows = {}
    /\ upserted = {}
    /\ lastOp = "init"
    /\ steps = 0

NextOi ==
    \/ \E w \in OiSymbols : OiFetch(w)
    \/ \E w \in OiSymbols : OiLoad(w)
    \/ \E w \in OiSymbols : OiSave(w)
    \/ \E w \in OiSymbols : OiCollect(w)

SpecOi == InitOi /\ [][NextOi]_vars

\* batch_fetch_oi has returned: every future was collected
OiBatchComplete == result.results = result.symbols

\* C24: after batch_fetch_oi completes, oi_cache.json holds today's open
\* interest of every symbol of the batch whose fetch succeeded
BatchKeepsEveryOiEntry ==
    OiBatchComplete =>
        \A w \in result.symbols :
            IsNum(result.current_oi[w]) =>
                /\ w \in DOMAIN disk
                /\ OiToday(clock) \in DOMAIN disk[w]
                /\ disk[w][OiToday(clock)] = Val(result.current_oi[w])

(***************************************************************************)
(* Rate limiter of get_option_chain (core/futu_option_iv.py)               *)
(*                                                                         *)
(* Worker threads call get_chain_rate_limiter() and then acquire() on the  *)
(* limiter it returned.  acquire runs wholly under the limiter's lock,     *)
(* its sleep included.  The accessor tests the global and assigns it in    *)
(* two steps with no lock.  A limiter object is named after the thread     *)
(* that constructed it.  Time is in ticks; the program's limiter allows    *)
(* 10 calls per 30 seconds and adds 0.1 s to its sleep, the model's        *)
(* limiter MaxCalls calls per TimeWindow ticks and one tick.               *)
(***************************************************************************)
MaxCalls == 2
TimeWindow == 3
MaxAcquires == 2
MaxSeconds == 5

LimiterThreads == { "t1", "t2" }

\* RateLimiter(max_calls, time_window)
RateLimiter(max_calls, time_window) ==
    [ max_calls |-> max_calls, time_window |-> time_window, calls |-> <<>>, lock |-> None ]

\* [t for t in self.calls if now - t < self.time_window]
live_calls(calls, now, time_window) ==
    SelectSeq(calls, LAMBDA t : now - t < time_window)

\* sleep_time = self.time_window - (now - self.calls[0]) + 0.1, as the time
\* at which the sleeper wakes
wake_time(calls, now, time_window) == now + (time_window - (now - calls[1]) + 1)

\* get_chain_rate_limiter, the test of the global: a thread that finds a
\* limiter returns it, one that finds None goes on to construct one
GetChainRateLimiter(t) ==
    /\ result.pc[t] = "idle"
    /\ result.acquired[t] < MaxAcquires
    /\ IF IsNone(data._chain_rate_limiter)
       THEN result' = [ result EXCEPT !.pc[t] = "construct" ]
       ELSE result' = [ result EXCEPT !.pc[t] = "acquire",
                                      !.rate_limiter[t] = data._chain_rate_limiter ]
    /\ lastOp' = "get_chain_rate_limiter"
    /\ UNCHANGED <<perm, data, disk, clock, appended, cfg, rows, upserted, steps>>

\* _chain_rate_limiter = RateLimiter(max_calls=10, time_window=30.0)
ConstructLimiter(t) ==
    /\ result.pc[t] = "construct"
    /\ data' = [ data EXCEPT !._chain_rate_limiter = Some(t),
                             !.limiters[t] = RateLimiter(MaxCalls, TimeWindow) ]
    /\ result' = [ result EXCEPT !.pc[t] = "acquire", !.rate_limiter[t] = Some(t) ]
    /\ lastOp' = "RateLimiter"
    /\ UNCHANGED <<perm, disk, clock, appended, cfg, rows, upserted, steps>>

\* acquire, from taking the lock to its return or to its sleep
Acquire(t) ==
    /\ result.pc[t] = "acquire"
    /\ LET l == Val(result.rate_limiter[t])
           self == data.limiters[l]
           now == clock
           calls == live_calls(self.calls, now, self.time_window)
       IN  /\ IsNone(self.lock)
           /\ IF Len(calls) >= self.max_calls
              THEN /\ data' = [ data EXCEPT !.limiters[l].calls = calls,
                                            !.limiters[l].lock = Some(t) ]
                   /\ result' = [ result EXCEPT !.pc[t] = "sleep",
                                                !.wake[t] = wake_time(calls, now, self.time_window),
                                                !.oldest[t] = Some(calls[1]) ]
                   /\ appended' = appended
                   /\ lastOp' = "sleep"
              ELSE /\ data' = [ data EXCEPT !.limiters[l].calls = Append(calls, now) ]
                   /\ result' = [ result EXCEPT !.pc[t] = "idle", !.acquired[t] = @ + 1,
                                                !.oldest[t] = None ]
                   /\ appended' = Append(appended, now)
                   /\ lastOp' = "acquire"
    /\ UNCHANGED <<perm, disk, clock, cfg, rows, upserted, steps>>

\* the sleeper wakes, cleans the records again, records its call and
\* releases the lock
WakeUp(t) ==
    /\ result.pc[t] = "sleep"
    /\ clock >= result.wake[t]
    /\ LET l == Val(result.rate_limiter[t])
           self == data.limiters[l]
           now == clock
           calls == live_calls(self.calls, now, self.time_window)
       IN  data' = [ data EXCEPT !.limiters[l].calls = Append(calls, now),
                                 !.limiters[l].lock = None ]
    /\ result' = [ result EXCEPT !.pc[t] = "idle", !.acquired[t] = @ + 1 ]
    /\ appended' = Append(appended, clock)
    /\ lastOp' = "acquire after sleep"
    /\ UNCHANGED <<perm, disk, clock, cfg, rows, upserted, steps>>

\* time passes
Second ==
    /\ clock < MaxSeconds
    /\ clock' = clock + 1
    /\ UNCHANGED <<perm, data, disk, result, appended, cfg, rows, upserted, lastOp, steps>>

InitLimiter ==
    /\ perm = NoPerm
    /\ cfg = DefaultCfg
    /\ data = [ _chain_rate_limiter |-> None,
                limiters |-> [ t \in LimiterThreads |-> RateLimiter(MaxCalls, TimeWindow) ] ]
    /\ disk = <<>>
    /\ clock = 0
    /\ result = [ pc |-> [ t \in LimiterThreads |-> "idle" ],
                  rate_limiter |-> [ t \in LimiterThreads |-> None ],
                  acquired |-> [ t \in LimiterThreads |-> 0 ],
                  wake |-> [ t \in LimiterThreads |-> 0 ],
                  oldest |-> [ t \in LimiterThreads |-> None ] ]
    /\ appended = <<>>
    /\ rows = {}
    /\ upserted = {}
    /\ lastOp = "init"
    /\ steps = 0

NextLimiter ==
    \/ \E t \in LimiterThreads : GetChainRateLimiter(t)
    \/ \E t \in LimiterThreads : ConstructLimiter(t)
    \/ \E t \in LimiterThreads : Acquire(t)
    \/ \E t \in LimiterThreads : WakeUp(t)
    \/ Second

SpecLimiter == InitLimiter /\ [][NextLimiter]_vars

\* C25: at most max_calls calls of acquire return within any window of
\* time_window (of every max_calls + 1 returns, the last is at least a
\* window after the first), and a caller that found the window full
\* returns only once the oldest call it found has left the window
AtMostMaxCallsPerWindow ==
    /\ \A i \in 1..Len(appended) :
           i + MaxCalls <= Len(appended) => appended[i + MaxCalls] - appended[i] >= TimeWindow
    /\ \A t \in LimiterThreads :
           (result.pc[t] = "idle" /\ IsNum(result.oldest[t]))
               => \E i \in 1..Len(appended) : appended[i] - Val(result.oldest[t]) >= TimeWindow

(***************************************************************************)
(* Background task manager (core/background_tasks.py)                      *)
(*                                                                         *)
(* One task is created and handed to execute_iv_fetch_task.  The daemon    *)
(* thread _run makes every update_task_status call, the progress           *)
(* callbacks of the fetch included (they run in the thread that called     *)
(* the fetch).  update_task_status holds task_lock from its lookup to its  *)
(* last assignment; its assignments are separate steps.  A reader thread   *)
(* takes the task from get_task and serialises it with to_dict.            *)
(***************************************************************************)
MaxSymbols == 2
MaxReads == 2

TaskId == "task"

\* BackgroundTask(task_id, task_type, symbols, total_symbols, callback)
BackgroundTask(total_symbols, callback) ==
    [ status |-> "PENDING", started_at |-> None, completed_at |-> None,
      progress |-> 0, total_symbols |-> total_symbols, completed_symbols |-> 0,
      result |-> None, error |-> None, callback |-> callback ]

\* the arguments of one update_task_status call
StatusUpdate(status, progress, completed_symbols, res, error) ==
    [ status |-> status, progress |-> progress, completed_symbols |-> completed_symbols,
      result |-> res, error |-> error ]

NoUpdate == StatusUpdate("PENDING", None, None, None, None)

\* task.status = status
set_status(task, status) == [ task EXCEPT !.status = status ]

\* the four optional arguments, each assigned when it is not None
set_optional_fields(task, progress, completed_symbols, res, error) ==
    [ task EXCEPT
        !.progress = IF IsNum(progress) THEN Val(progress) ELSE @,
        !.completed_symbols = IF IsNum(completed_symbols) THEN Val(completed_symbols) ELSE @,
        !.result = IF IsNum(res) THEN res ELSE @,
        !.error = IF IsNum(error) THEN error ELSE @ ]

\* set_timestamps that stamps completed_at on COMPLETED only
set_timestamps_completed_only(task, status, now) ==
    [ task EXCEPT
        !.started_at = IF status = "RUNNING" /\ IsNone(@) THEN Some(now) ELSE @,
        !.completed_at = IF status = "COMPLETED" THEN Some(now) ELSE @ ]

\* started_at on the first RUNNING, completed_at on COMPLETED and FAILED
set_timestamps(task, status, now) ==
    [ task EXCEPT
        !.started_at = IF status = "RUNNING" /\ IsNone(@) THEN Some(now) ELSE @,
        !.completed_at = IF status \in { "COMPLETED", "FAILED" } THEN Some(now) ELSE @ ]

\* BackgroundTask.to_dict, the mutable fields it serialises
to_dict(task) ==
    [ status |-> task.status, started_at |-> task.started_at,
      completed_at |-> task.completed_at, progress |-> task.progress,
      completed_symbols |-> task.completed_symbols, error |-> task.error ]

\* int((completed / total) * 100)
progress_of(completed, total) == (completed * 100) \div total

\* create_iv_fetch_task -> create_task: the task enters the table under the lock
CreateTask ==
    /\ IsNone(data.tasks[TaskId])
    /\ IsNone(data.task_lock)
    /\ \E total \in 1..MaxSymbols, callback \in { "none", "returns", "raises" } :
         data' = [ data EXCEPT !.tasks[TaskId] = Some(BackgroundTask(total, callback)) ]
    /\ lastOp' = "create_task"
    /\ UNCHANGED <<perm, disk, clock, result, appended, cfg, rows, upserted, steps>>

\* execute_iv_fetch_task -> execute_task_async: the daemon thread starts
ExecuteTaskAsync ==
    /\ IsNum(data.tasks[TaskId])
    /\ result.pc = "not started"
    /\ result' = [ result EXCEPT !.pc = "get_task" ]
    /\ lastOp' = "execute_task_async"
    /\ UNCHANGED <<perm, data, disk, clock, appended, cfg, rows, upserted, steps>>

\* _run: task = self.get_task(task_id), then update_task_status(RUNNING)
RunGetTask ==
    /\ result.pc = "get_task"
    /\ IsNone(data.task_lock)
    /\ result' = [ result EXCEPT !.pc = "update", !.stage = "status", !.next = "func",
                                 !.call = StatusUpdate("RUNNING", None, None, None, None) ]
    /\ lastOp' = "get_task"
    /\ UNCHANGED <<perm, data, disk, clock, appended, cfg, rows, upserted, steps>>

\* update_task_status: the lock is taken, the task looked up, status assigned
UpdateStatus ==
    /\ result.pc = "update" /\ result.stage = "status"
    /\ IsNone(data.task_lock)
    /\ data' = [ data EXCEPT !.task_lock = Some("run"),
                             !.tasks[TaskId] = Some(set_status(Val(@), result.call.status)) ]
    /\ result' = [ result EXCEPT !.stage = "fields" ]
    /\ lastOp' = "task.status"
    /\ UNCHANGED <<perm, disk, clock, appended, cfg, rows, upserted, steps>>

\* update_task_status: progress, completed_symbols, result and error
UpdateFields ==
    /\ result.pc = "update" /\ result.stage = "fields"
    /\ data' = [ data EXCEPT !.tasks[TaskId] =
                   Some(set_optional_fields(Val(@), result.call.progress,
                                            result.call.completed_symbols,
                                            result.call.result, result.call.error)) ]
    /\ result' = [ result EXCEPT !.stage = "timestamps" ]
    /\ lastOp' = "task.progress"
    /\ UNCHANGED <<perm, disk, clock, appended, cfg, rows, upserted, steps>>

\* update_task_status: started_at and completed_at, and the lock is released
UpdateTimestamps ==
    /\ result.pc = "update" /\ result.stage = "timestamps"
    /\ data' = [ data EXCEPT !.task_lock = None,
                             !.tasks[TaskId] = Some(set_timestamps(Val(@), result.call.status, clock)) ]
    /\ result' = [ result EXCEPT !.pc = result.next, !.stage = "status" ]
    /\ lastOp' = "update_task_status"
    /\ UNCHANGED <<perm, disk, clock, appended, cfg, rows, upserted, steps>>

\* func(): the fetch reports the next symbol through progress_callback,
\* returns its results, or raises
RunFunc ==
    /\ result.pc = "func"
    /\ LET total == Val(data.tasks[TaskId]).total_symbols
       IN  \/ /\ result.completed < total
              /\ result' = [ result EXCEPT
                     !.completed = @ + 1,
                     !.pc = "update", !.next = "func",
                     !.call = StatusUpdate("RUNNING", Some(progress_of(result.completed + 1, total)),
                                           Some(result.completed + 1), None, None) ]
              /\ lastOp' = "progress_callback"
           \/ /\ result' = [ result EXCEPT
                     !.pc = "update", !.next = "callback",
                     !.call = StatusUpdate("COMPLETED", Some(100), None, Some("results"), None) ]
              /\ lastOp' = "func returned"
           \/ /\ result' = [ result EXCEPT
                     !.pc = "update", !.next = "end",
                     !.call = StatusUpdate("FAILED", None, None, None, Some("error")) ]
              /\ lastOp' = "func raised"
    /\ UNCHANGED <<perm, data, disk, clock, appended, cfg, rows, upserted, steps>>

\* the completion callback; an exception it raises is caught and printed
RunCallback ==
    /\ result.pc = "callback"
    /\ result' = [ result EXCEPT !.pc = "end" ]
    /\ lastOp' = CASE Val(data.tasks[TaskId]).callback = "none" -> "no callback"
                   [] Val(data.tasks[TaskId]).callback = "returns" -> "callback returned"
                   [] OTHER -> "callback raised"
    /\ UNCHANGED <<perm, data, disk, clock, appended, cfg, rows, upserted, steps>>

\* a reader's get_task: the task object itself, taken under the lock
ReaderGetTask ==
    /\ IsNone(data.task_lock)
    /\ IsNum(data.tasks[TaskId])
    /\ ~result.reader_has_task
    /\ result' = [ result EXCEPT !.reader_has_task = TRUE ]
    /\ lastOp' = "reader get_task"
    /\ UNCHANGED <<perm, data, disk, clock, appended, cfg, rows, upserted, steps>>

\* the reader's task.to_dict(): the fields as they are now; no lock is taken
ReaderToDict ==
    /\ result.reader_has_task
    /\ result.reads < MaxReads
    /\ result' = [ result EXCEPT !.reads = @ + 1,
                                 !.observed = Some(to_dict(Val(data.tasks[TaskId]))) ]
    /\ lastOp' = "to_dict"
    /\ UNCHANGED <<perm, data, disk, clock, appended, cfg, rows, upserted, steps>>

InitTasks ==
    /\ perm = NoPerm
    /\ cfg = DefaultCfg
    /\ data = [ tasks |-> [ i \in { TaskId } |-> None ], task_lock |-> None ]
    /\ disk = <<>>
    /\ clock = 0
    /\ result = [ pc |-> "not started", stage |-> "status", next |-> "end", call |-> NoUpdate,
                  completed |-> 0, reader_has_task |-> FALSE, reads |-> 0, observed |-> None ]
    /\ appended = <<>>
    /\ rows = {}
    /\ upserted = {}
    /\ lastOp = "init"
    /\ steps = 0

NextTasks ==
    \/ CreateTask
    \/ ExecuteTaskAsync
    \/ RunGetTask
    \/ UpdateStatus
    \/ UpdateFields
    \/ UpdateTimestamps
    \/ RunFunc
    \/ RunCallback
    \/ ReaderGetTask
    \/ ReaderToDict
    \/ Second

SpecTasks == InitTasks /\ [][NextTasks]_vars

\* a view of the task as it is between two update_task_status calls
WholeUpdate(d) ==
    /\ d.status \in { "COMPLETED", "FAILED" } <=> IsNum(d.completed_at)
    /\ d.status # "PENDING" => IsNum(d.started_at)
    /\ d.status = "COMPLETED" => d.progress = 100
    /\ d.status = "FAILED" => IsNum(d.error)

\* C26: the task's mutable fields are only read and written under the task
\* lock, so what a thread reads of a task is never a partially applied
\* status update
NoPartialStatusObserved ==
    IsNum(result.observed) => WholeUpdate(Val(result.observed))

\* the task's status, "NONE" before create_task
TaskStatusOf(d) == IF IsNone(d.tasks[TaskId]) THEN "NONE" ELSE Val(d.tasks[TaskId]).status

\* one step of the status: unchanged, or one of the forward moves
StatusStepForward ==
    \/ TaskStatusOf(data') = TaskStatusOf(data)
    \/ << TaskStatusOf(data), TaskStatusOf(data') >> \in
           { << "NONE", "PENDING" >>, << "PENDING", "RUNNING" >>,
             << "RUNNING", "COMPLETED" >>, << "RUNNING", "FAILED" >> }

\* between update_task_status calls completed_at is set exactly on
\* COMPLETED and FAILED
CompletedAtIffFinished ==
    (IsNum(data.tasks[TaskId]) /\ IsNone(data.task_lock)) =>
        (Val(data.tasks[TaskId]).status \in { "COMPLETED", "FAILED" }
            <=> IsNum(Val(data.tasks[TaskId]).completed_at))

\* C27: a task's status only moves PENDING -> RUNNING -> COMPLETED or
\* FAILED, nothing changes it once it is COMPLETED or FAILED (a failing
\* completion callback included), and completed_at is set exactly when the
\* status is COMPLETED or FAILED
TaskStatusOnlyForward == [][StatusStepForward]_vars /\ []CompletedAtIffFinished

\* a task has completed after a progress update and its callback has
\* raised; its status and completed_at stand
TaskStatusOnlyForwardWitness ==
    /\ IsNum(data.tasks[TaskId])
    /\ IsNone(data.task_lock)
    /\ result.pc = "end"
    /\ lastOp = "callback raised"
    /\ result.completed > 0
    /\ Val(data.tasks[TaskId]).status = "COMPLETED"
    /\ IsNum(Val(data.tasks[TaskId]).completed_at)

\* C28: a reported trade_permission of NORMAL implies posture_5d =
\* TREND_CONFIRM and a first-pass permission of NORMAL; under COUNTERTREND,
\* ONE_DAY_SHOCK and CHOP the reported permission is at least
\* ALLOW_DEFINED_RISK_ONLY
NormalOnlyUnderTrendConfirm ==
    perm.evaluated =>
        /\ perm.reported.trade_permission = "NORMAL" =>
              /\ perm.posture_5d = "TREND_CONFIRM"
              /\ perm.pass_one.trade_permission = "NORMAL"
        /\ perm.posture_5d \in { "COUNTERTREND", "ONE_DAY_SHOCK", "CHOP" } =>
              severity_map(perm.reported.trade_permission) >= severity_map("ALLOW_DEFINED_RISK_ONLY")

\* an evaluation that reports NORMAL: its posture is TREND_CONFIRM and
\* its first pass found nothing
NormalOnlyUnderTrendConfirmWitness ==
    /\ perm.evaluated
    /\ perm.reported.trade_permission = "NORMAL"
    /\ perm.posture_5d = "TREND_CONFIRM"
    /\ perm.pass_one.trade_permission = "NORMAL"
    /\ perm.pass_one.permission_reasons = <<>>

(***************************************************************************)
(* Earnings proximity in one calculate_analysis call (core/analyzer.py,    *)
(* core/scoring.py, core/guards.py)                                        *)
(*                                                                         *)
(* Scores are in hundredths.  rest is the volatility score's spread        *)
(* without the earnings boost and gate the product of its two gates in     *)
(* percent; the direction preference, the confidence, the data quality,    *)
(* the fear reasons and the posture do not depend on the earnings date.    *)
(***************************************************************************)
\* the earnings boost of compute_vol_components
earn_boost(days_to_earnings, ignore_earnings) ==
    IF ~ignore_earnings /\ IsNum(days_to_earnings) /\ Val(days_to_earnings) > 0
    THEN IF Val(days_to_earnings) <= 2 THEN 80
         ELSE IF Val(days_to_earnings) <= 7 THEN 40
         ELSE IF Val(days_to_earnings) <= 14 THEN 20
         ELSE 0
    ELSE 0

\* final_score = (base_spread + term_structure) * multileg_gate * dynamic_gate
compute_vol_score(rest, gate, days_to_earnings, ignore_earnings) ==
    ((rest + earn_boost(days_to_earnings, ignore_earnings)) * gate) \div 100

\* map_vol_pref with the default threshold 0.40
map_vol_pref(score) ==
    IF score >= 40 THEN "LONG_VOL" ELSE IF score <= -40 THEN "SHORT_VOL" ELSE "NEUTRAL"

\* the permission part of calculate_analysis(record, ignore_earnings=...):
\* the guard is handed features["days_to_earnings"] as it is
analysis_permission(in) ==
    LET vol_score == compute_vol_score(in.rest, in.gate, in.days_to_earnings, in.ignore_earnings)
    IN  permission_stages(PermissionInput(in.dir_pref, map_vol_pref(vol_score), in.confidence,
                                          in.days_to_earnings, in.data_quality,
                                          in.fear_reasons, in.posture_5d))

EarningsDays == { None, Some(-1), Some(0), Some(2), Some(7), Some(8), Some(14), Some(15) }
VolRests == { -120, -50, -30, 0, 30, 50 }
VolGates == { 100, 80 }

EarningsInputs ==
    { [ called |-> FALSE, rest |-> r, gate |-> g, days_to_earnings |-> e, ignore_earnings |-> i,
        dir_pref |-> d, confidence |-> c, data_quality |-> q, fear_reasons |-> f,
        posture_5d |-> p, out |-> NoPerm ] :
        r \in VolRests, g \in VolGates, e \in EarningsDays, i \in BOOLEAN,
        d \in { "BULL", "NEUTRAL" }, c \in { "HIGH", "LOW" }, q \in { "HIGH", "MED" },
        f \in { <<>>, <<"HIGH_VIX_ENV">> }, p \in { "TREND_CONFIRM", "ONE_DAY_SHOCK" } }

CalculateWithEarnings ==
    /\ ~result.called
    /\ result' = [ result EXCEPT !.called = TRUE, !.out = analysis_permission(result) ]
    /\ lastOp' = "calculate_analysis"
    /\ UNCHANGED <<perm, data, disk, clock, appended, cfg, rows, upserted, steps>>

InitEarnings ==
    /\ perm = NoPerm
    /\ cfg = DefaultCfg
    /\ data = <<>>
    /\ disk = <<>>
    /\ clock = 0
    /\ result \in EarningsInputs
    /\ appended = <<>>
    /\ rows = {}
    /\ upserted = {}
    /\ lastOp = "init"
    /\ steps = 0

NextEarnings == CalculateWithEarnings

SpecEarnings == InitEarnings /\ [][NextEarnings]_vars

\* C29: with ignore_earnings=True the earnings date has no effect: the
\* permission, the reasons and the disabled structures are those of the
\* same record with no earnings date, and EARNINGS_WINDOW_SHORT_VOL is
\* not among the reasons
IgnoreEarningsIgnoresEarnings ==
    (result.called /\ result.ignore_earnings) =>
        /\ result.out.reported = analysis_permission([ result EXCEPT !.days_to_earnings = None ]).reported
        /\ \A i \in 1..Len(result.out.reported.permission_reasons) :
               result.out.reported.permission_reasons[i] # "EARNINGS_WINDOW_SHORT_VOL"

\* the mean of sign(score) over the last n entries of a history, clipped
MeanSignOfLast(history_scores, n) ==
    LET last == LastN(history_scores, n)
    IN  IF last = <<>> THEN [ num |-> 0, den |-> 1 ]
        ELSE ClipUnit([ num |-> SumSeq([ i \in 1..Len(last) |-> Sign(last[i]) ]),
                        den |-> Len(last) ])

\* C30: the consistency the posture classifier uses is the mean of
\* sign(score) over the last consistency_days history scores, clipped to
\* [-1, 1]: of a longer history only the final consistency_days entries
\* contribute
ConsistencyOfLastScores ==
    result.called =>
        LET expected == MeanSignOfLast(result.history_scores, result.config.consistency_days)
            used == result.posture_info.consistency_5d
        IN  used.num * expected.den = expected.num * used.den

====
